---- MODULE Spec2Model ----
(***************************************************************************)
(* Turn processing of the Swiss Airlines assistant: run_graph_v4           *)
(* (backend/graph/workflow.py), the primary agent with its keyword router, *)
(* generation fallback and refinement pass                                 *)
(* (backend/agents/primary_assistant.py, backend/agents/gemini_refiner.py) *)
(* and the domain tools (backend/tools).                                   *)
(*                                                                         *)
(* Text.  A Python str is modelled as a sequence of pieces.  A piece is    *)
(* one character, or a fragment of a string literal of the source kept     *)
(* whole; a fragment is kept whole only where no test the code applies     *)
(* (strip, lower, substring search for a keyword, prefix test) can tell    *)
(* its characters apart.  Utterances, keywords, airport codes, city names  *)
(* and backend completions are spelled character by character, so that     *)
(* "par" is found inside "paris" as Python's `in` finds it.                *)
(***************************************************************************)
EXTENDS Naturals, Sequences, FiniteSets, TLC

(* ------------------------------ bounds -------------------------------- *)

\* longest utterance, in words of Vocabulary
MaxWords == 2
\* longest input history of the agent specification
MaxHistory == 1
\* longest input history of the workflow specification
MaxWorkflowHistory == 10
\* longest identifier given to a booking tool
MaxIdLen == 2
\* most rows of the store a query's filter matches
MaxMatching == 21

(* ------------------------------ records ------------------------------- *)

\* a message of the conversation
Message(role, content) == [role |-> role, content |-> content]

\* A tool result: a list of n rows of the store (kind "rows") or a
\* displayable string (kind "text").  A call that raises has kind "raise";
\* text is then str(e).
Rows(n) == [kind |-> "rows", text |-> [i \in 1..n |-> "<row>"]]
TextResult(t) == [kind |-> "text", text |-> t]
Raise(t) == [kind |-> "raise", text |-> t]

\* what a generation backend does with one request: it fails, or it
\* completes with a text
BackendFails == [text |-> <<>>, ok |-> FALSE]
Completes(t) == [text |-> t, ok |-> TRUE]

\* the configuration read when the modules are loaded
Config(use_refinement, client) == [use_refinement |-> use_refinement, client |-> client]

\* what the environment does during one turn
Env(tool, ollama, fallback, rewrite) ==
    [tool |-> tool, ollama |-> ollama, fallback |-> fallback, rewrite |-> rewrite]

\* the store as one query sees it: whether it can be opened and queried, and
\* how many rows the query's WHERE clause matches
Store(reachable, matching) == [reachable |-> reachable, matching |-> matching]

\* the params dict without a location key, and the empty tool-result map
NoLocation == <<>>
NoResults == <<>>

\* what agent computes during a turn, before it has run
NoTurn ==
    [ran |-> FALSE, raised |-> FALSE, user_query |-> <<>>, location |-> NoLocation,
     routed |-> "none", tool_results |-> NoResults, recent_history |-> <<>>,
     prompt |-> <<>>, generated |-> <<>>, answer |-> <<>>, trace |-> <<>>,
     messages |-> <<>>]

\* what run_graph_v4 hands back: the agent's record and the list returned
Outcome(turn_record, returned) == [turn_record |-> turn_record, returned |-> returned]

\* a call of a booking tool
Booking(tool, args, result) == [tool |-> tool, args |-> args, result |-> result]
NoBooking == Booking("none", <<>>, TextResult(<<>>))

(* ------------------------------- text --------------------------------- *)

UpperAlpha == <<"A", "B", "C", "D", "E", "F", "G", "H", "I", "J", "K", "L", "M", "N", "O", "P", "Q", "R", "S", "T", "U", "V", "W", "X", "Y", "Z">>
LowerAlpha == <<"a", "b", "c", "d", "e", "f", "g", "h", "i", "j", "k", "l", "m", "n", "o", "p", "q", "r", "s", "t", "u", "v", "w", "x", "y", "z">>

IndexIn(alpha, c) == CHOOSE i \in 1..Len(alpha) : alpha[i] = c

IsUpper(c) == \E i \in 1..Len(UpperAlpha) : UpperAlpha[i] = c
IsLower(c) == \E i \in 1..Len(LowerAlpha) : LowerAlpha[i] = c
IsCased(c) == IsUpper(c) \/ IsLower(c)

\* str.lower() / str.upper() on one character
LowerCh(c) == IF IsUpper(c) THEN LowerAlpha[IndexIn(UpperAlpha, c)] ELSE c
UpperCh(c) == IF IsLower(c) THEN UpperAlpha[IndexIn(LowerAlpha, c)] ELSE c

\* str.lower()
Lower(s) == [i \in 1..Len(s) |-> LowerCh(s[i])]
\* str.upper()
Upper(s) == [i \in 1..Len(s) |-> UpperCh(s[i])]

\* a title() that lower-cases every character
TitleLower(s) == Lower(s)

\* str.title(): a cased character is upper-cased after an uncased one (or at
\* the start) and lower-cased after a cased one
Title(s) ==
    [i \in 1..Len(s) |->
        IF i = 1 \/ ~IsCased(s[i - 1]) THEN UpperCh(s[i]) ELSE LowerCh(s[i])]

\* needle in hay (Python's substring test)
Contains(hay, needle) ==
    \E i \in 0..(Len(hay) - Len(needle)) :
        \A j \in 1..Len(needle) : hay[i + j] = needle[j]

\* hay.startswith(prefix)
StartsWith(hay, prefix) ==
    /\ Len(prefix) <= Len(hay)
    /\ \A j \in 1..Len(prefix) : hay[j] = prefix[j]

IsSpace(c) == c \in {" ", "\n", "\t"}

\* str.strip(): leading and trailing whitespace removed
Strip(s) ==
    LET keep == {i \in 1..Len(s) : ~IsSpace(s[i])}
    IN  IF keep = {} THEN <<>>
        ELSE LET lo == CHOOSE i \in keep : \A j \in keep : i <= j
                 hi == CHOOSE i \in keep : \A j \in keep : j <= i
             IN  SubSeq(s, lo, hi)

\* any(word in text for word in words)
AnyIn(words, hay) == \E k \in 1..Len(words) : Contains(hay, words[k])

\* " ".join(words)
RECURSIVE Join(_)
Join(ws) ==
    IF ws = <<>> THEN <<>>
    ELSE IF Len(ws) = 1 THEN ws[1]
    ELSE ws[1] \o <<" ">> \o Join(Tail(ws))

\* sequences over S of length at most n
RECURSIVE SeqsUpTo(_, _)
SeqsUpTo(S, n) ==
    IF n = 0 THEN {<<>>}
    ELSE LET shorter == SeqsUpTo(S, n - 1)
         IN  shorter \cup {Append(s, x) : s \in {t \in shorter : Len(t) = n - 1}, x \in S}

(* --------------------- _extract_search_params ------------------------- *)

airports ==
    << <<"z", "u", "r">>, <<"j", "f", "k">>, <<"l", "h", "r">>, <<"c", "d", "g">>, <<"f", "r", "a">>,
       <<"z", "r", "h">>, <<"n", "y", "c">>, <<"l", "o", "n">>, <<"p", "a", "r">> >>

cities ==
    << <<"z", "u", "r", "i", "c", "h">>, <<"n", "e", "w", " ", "y", "o", "r", "k">>, <<"l", "o", "n", "d", "o", "n">>, <<"p", "a", "r", "i", "s">>, <<"f", "r", "a", "n", "k", "f", "u", "r", "t">> >>

DefaultLocation == <<"Z", "u", "r", "i", "c", "h">>

\* first element of list, in list order, that occurs in text; 0 when none does
FirstMatch(list, text) ==
    IF \E k \in 1..Len(list) : Contains(text, list[k])
    THEN CHOOSE k \in 1..Len(list) :
            /\ Contains(text, list[k])
            /\ \A m \in 1..(k - 1) : ~Contains(text, list[m])
    ELSE 0

\* lines 120-123: the airport loop sets params["location"] and breaks
AirportLoop(query_lower) ==
    LET k == FirstMatch(airports, query_lower)
    IN  IF k = 0 THEN NoLocation ELSE Upper(airports[k])

\* a city loop that is skipped once the airport loop has found a location
CityLoopGuarded(query_lower, location) ==
    LET k == FirstMatch(cities, query_lower)
    IN  IF k = 0 \/ location # NoLocation THEN location ELSE Title(cities[k])

\* lines 125-128: the city loop runs whatever the airport loop found, and
\* assigns params["location"] again on its first hit
CityLoop(query_lower, location) ==
    LET k == FirstMatch(cities, query_lower)
    IN  IF k = 0 THEN location ELSE Title(cities[k])

\* an extraction that leaves the location out when nothing matched
DefaultLoopMissing(location) == location

\* lines 130-131: the default
DefaultLoop(location) ==
    IF location = NoLocation THEN DefaultLocation ELSE location

\* _extract_search_params(query)["location"]
ExtractSearchParams(query) ==
    LET query_lower == Lower(query)
    IN  DefaultLoop(CityLoop(query_lower, AirportLoop(query_lower)))

(* ------------------------------ tools --------------------------------- *)

\* every store a query can meet
Stores == {Store(FALSE, 0)} \cup {Store(TRUE, n) : n \in 0..MaxMatching}

\* the store as the query of a turn meets it: unreachable, nothing matching,
\* more matching than any limit
StoreOutcomes == {Store(FALSE, 0), Store(TRUE, 0), Store(TRUE, MaxMatching)}

\* flights.py:15 and the other search tools: limit=20; agent asks for 5 flights
DefaultLimit == 20
FlightLimit == 5

\* a query without its LIMIT clause
FetchedWithoutLimit(matching, limit) == matching

\* the rows a SELECT ... LIMIT ? fetches: SQLite reads a negative limit as
\* no limit
Fetched(matching, limit) ==
    IF limit < 0 \/ matching <= limit THEN matching ELSE limit

\* flights.py search_flights: every failure is caught and returned as a string
search_flights(departure_airport, limit, db) ==
    IF ~db.reachable THEN TextResult(<<"Database error: ", "<e>">>)
    ELSE IF Fetched(db.matching, limit) = 0
    THEN TextResult(<<"No flights found for your criteria. Try broader search or different airports.">>)
    ELSE Rows(Fetched(db.matching, limit))

\* hotels.py search_hotels
search_hotels(location, limit, db) ==
    IF ~db.reachable THEN TextResult(<<"Database error: ", "<e>">>)
    ELSE IF Fetched(db.matching, limit) = 0
    THEN TextResult(<<"No hotels found in ">> \o location \o <<". Try a different location.">>)
    ELSE Rows(Fetched(db.matching, limit))

\* car_rentals.py search_cars
search_cars(location, limit, db) ==
    IF ~db.reachable THEN TextResult(<<"Database error: ", "<e>">>)
    ELSE IF Fetched(db.matching, limit) = 0
    THEN TextResult(<<"No rental cars available in ">> \o location \o <<". Try a different location.">>)
    ELSE Rows(Fetched(db.matching, limit))

\* excursions.py search_excursions
search_excursions(location, limit, db) ==
    IF ~db.reachable THEN TextResult(<<"Database error: ", "<e>">>)
    ELSE IF Fetched(db.matching, limit) = 0
    THEN TextResult(<<"No excursions available in ">> \o location \o <<". Try a different location.">>)
    ELSE Rows(Fetched(db.matching, limit))

\* what the policy retriever does with one query: it was never built
\* (retriever is None), the embedding call fails, or it finds chunks
RetrieverOutcomes == {"docs", "nodocs", "unavailable"}

\* policy.py VectorStoreRetriever.query(query, k): the k nearest chunks, and
\* [] when the embedding call or the search raises
VectorStoreRetriever_query(query, k, retr) ==
    IF retr = "docs" THEN [i \in 1..k |-> "<chunk>"] ELSE <<>>

\* "\n\n---\n\n".join(chunks)
RECURSIVE JoinChunks(_)
JoinChunks(chunks) ==
    IF chunks = <<>> THEN <<>>
    ELSE IF Len(chunks) = 1 THEN chunks
    ELSE <<chunks[1], "\n\n---\n\n">> \o JoinChunks(Tail(chunks))

\* a lookup without the test for a retriever that was never built
lookup_policy_Unguarded(query, retr) ==
    IF retr = "unavailable"
    THEN TextResult(<<"Error retrieving policy: ", "<e>">>)
    ELSE LET retrieved_docs == VectorStoreRetriever_query(query, 2, retr)
         IN  IF retrieved_docs = <<>>
             THEN TextResult(<<"No relevant policy information found. Please contact customer service.">>)
             ELSE TextResult(JoinChunks(retrieved_docs))

\* policy.py lookup_policy: the two top chunks, joined
lookup_policy(query, retr) ==
    IF retr = "unavailable"
    THEN TextResult(<<"Policy lookup is currently unavailable. Please try again later.">>)
    ELSE LET retrieved_docs == VectorStoreRetriever_query(query, 2, retr)
         IN  IF retrieved_docs = <<>>
             THEN TextResult(<<"No relevant policy information found. Please contact customer service.">>)
             ELSE TextResult(JoinChunks(retrieved_docs))

\* what the web search does with one query: no client is configured, the
\* client returns results, returns none, or fails
WebOutcomes == {"mock", "results", "noresults", "error"}

\* a search whose client error is not caught
search_web_ErrorEscapes(query, web) ==
    CASE web = "mock" ->
            TextResult(<<"Mock search result: No significant flight delays reported for Swiss Airlines today. (Configure TAVILY_API_KEY in .env for live web search capability.)">>)
      [] web = "noresults" -> TextResult(<<"No web results found for your query.">>)
      [] web = "results" -> TextResult(<<"<formatted results>">>)
      [] web = "error" -> Raise(<<"<e>">>)

\* utilities.py search_web
search_web(query, web) ==
    CASE web = "mock" ->
            TextResult(<<"Mock search result: No significant flight delays reported for Swiss Airlines today. (Configure TAVILY_API_KEY in .env for live web search capability.)">>)
      [] web = "noresults" -> TextResult(<<"No web results found for your query.">>)
      [] web = "results" -> TextResult(<<"<formatted results>">>)
      [] web = "error" ->
            TextResult(<<"Web search temporarily unavailable. Error: ", "<e>">>)

\* utilities.py fetch_user_info
fetch_user_info(passenger_id) ==
    IF passenger_id = <<>>
    THEN TextResult(<<"No passenger information available.">>)
    ELSE TextResult(<<"Passenger ">> \o passenger_id
                    \o <<" has active booking: Flight LX123 (ZUR->JFK).">>)

(* --------------------------- booking tools ---------------------------- *)

\* hotels.py book_hotel: passenger_id is tested first, then hotel_id
book_hotel(hotel_id, passenger_id) ==
    IF passenger_id = <<>>
    THEN Raise(<<"No passenger ID provided. Authorization required.">>)
    ELSE IF hotel_id = <<>>
    THEN Raise(<<"Hotel ID is required.">>)
    ELSE TextResult(<<"Hotel ">> \o hotel_id \o <<" successfully booked for passenger ">>
                    \o passenger_id \o <<".">>)

\* car_rentals.py book_car
book_car(car_id, passenger_id) ==
    IF passenger_id = <<>>
    THEN Raise(<<"No passenger ID provided. Authorization required.">>)
    ELSE IF car_id = <<>>
    THEN Raise(<<"Car ID is required.">>)
    ELSE TextResult(<<"Car ">> \o car_id \o <<" successfully booked for passenger ">>
                    \o passenger_id \o <<".">>)

\* excursions.py book_excursion
book_excursion(excursion_id, passenger_id) ==
    IF passenger_id = <<>>
    THEN Raise(<<"No passenger ID provided. Authorization required.">>)
    ELSE IF excursion_id = <<>>
    THEN Raise(<<"Excursion ID is required.">>)
    ELSE TextResult(<<"Excursion ">> \o excursion_id
                    \o <<" successfully booked for passenger ">> \o passenger_id \o <<".">>)

\* a check that lets one missing identifier through
update_ticket_OneIdSuffices(ticket_no, new_flight_id, passenger_id) ==
    IF passenger_id = <<>>
    THEN Raise(<<"No passenger ID provided. Authorization required.">>)
    ELSE IF ticket_no = <<>> /\ new_flight_id = <<>>
    THEN Raise(<<"Ticket number and new flight ID are required.">>)
    ELSE TextResult(<<"Ticket ">> \o ticket_no \o <<" successfully updated to flight ">>
                    \o new_flight_id \o <<".">>)

\* flights.py update_ticket_to_new_flight: the confirmation names the ticket
\* and the new flight
update_ticket_to_new_flight(ticket_no, new_flight_id, passenger_id) ==
    IF passenger_id = <<>>
    THEN Raise(<<"No passenger ID provided. Authorization required.">>)
    ELSE IF ticket_no = <<>> \/ new_flight_id = <<>>
    THEN Raise(<<"Ticket number and new flight ID are required.">>)
    ELSE TextResult(<<"Ticket ">> \o ticket_no \o <<" successfully updated to flight ">>
                    \o new_flight_id \o <<".">>)

(* ------------------------- gemini_refiner.py -------------------------- *)

\* refine_with_gemini(prompt): without a client, and when the call fails,
\* the prompt itself is returned; the function never raises
refine_with_gemini(prompt, client, gemini) ==
    IF ~client THEN prompt
    ELSE IF gemini.ok THEN Strip(gemini.text)
    ELSE prompt

(* ------------------------ primary_assistant.py ------------------------ *)

\* lines 73-78 and 84-96 of _execute_tool: the booking-class names and the
\* names the dispatcher knows
booking_tools == {"book_hotel", "book_car", "book_excursion", "update_ticket_to_new_flight"}
tools ==
    booking_tools \cup {"search_flights", "search_hotels", "search_cars", "search_excursions",
                        "lookup_policy", "search_web", "fetch_user_info"}

\* args.get(k): a missing key reads as None, which is falsy like ""
Get(args, k) == IF k \in DOMAIN args THEN args[k] ELSE <<>>

\* an injection that also replaces the passenger_id the caller gave
InjectPassengerAlways(name, args, passenger_id) ==
    IF name \in booking_tools /\ passenger_id # <<>>
    THEN [k \in DOMAIN args \cup {"passenger_id"} |->
            IF k = "passenger_id" THEN passenger_id ELSE args[k]]
    ELSE args

\* lines 80-82: the session passenger_id is written into the args of a
\* booking tool that has none
InjectPassenger(name, args, passenger_id) ==
    IF name \in booking_tools /\ Get(args, "passenger_id") = <<>> /\ passenger_id # <<>>
    THEN [k \in DOMAIN args \cup {"passenger_id"} |->
            IF k = "passenger_id" THEN passenger_id ELSE args[k]]
    ELSE args

\* the parameters of each tool without a default, and those with one
Required(name) ==
    CASE name = "book_hotel" -> {"hotel_id", "passenger_id"}
      [] name = "book_car" -> {"car_id", "passenger_id"}
      [] name = "book_excursion" -> {"excursion_id", "passenger_id"}
      [] name = "update_ticket_to_new_flight" -> {"ticket_no", "new_flight_id", "passenger_id"}
      [] name = "search_flights" -> {}
      [] name \in {"search_hotels", "search_cars", "search_excursions"} -> {"location"}
      [] name \in {"lookup_policy", "search_web"} -> {"query"}
      [] name = "fetch_user_info" -> {"passenger_id"}
Optional(name) ==
    CASE name = "search_flights" -> {"departure_airport", "arrival_airport", "limit"}
      [] name = "search_hotels" -> {"checkin", "checkout", "limit"}
      [] name = "search_cars" -> {"dates", "limit"}
      [] name = "search_excursions" -> {"limit"}
      [] OTHER -> {}

\* limit=20 unless the args give one
LimitOf(args) == IF "limit" \in DOMAIN args THEN args["limit"] ELSE DefaultLimit

\* line 103: tools[name](**args).  Python raises TypeError when a parameter
\* without default is missing or a keyword is not a parameter.
CallTool(name, args, outcome) ==
    IF ~(Required(name) \subseteq DOMAIN args
         /\ DOMAIN args \subseteq Required(name) \cup Optional(name))
    THEN Raise(<<"<TypeError>">>)
    ELSE CASE name = "book_hotel" -> book_hotel(args["hotel_id"], args["passenger_id"])
           [] name = "book_car" -> book_car(args["car_id"], args["passenger_id"])
           [] name = "book_excursion" ->
                book_excursion(args["excursion_id"], args["passenger_id"])
           [] name = "update_ticket_to_new_flight" ->
                update_ticket_to_new_flight(args["ticket_no"], args["new_flight_id"],
                                            args["passenger_id"])
           [] name = "search_flights" ->
                search_flights(Get(args, "departure_airport"), LimitOf(args), outcome)
           [] name = "search_hotels" -> search_hotels(args["location"], LimitOf(args), outcome)
           [] name = "search_cars" -> search_cars(args["location"], LimitOf(args), outcome)
           [] name = "search_excursions" ->
                search_excursions(args["location"], LimitOf(args), outcome)
           [] name = "lookup_policy" -> lookup_policy(args["query"], outcome)
           [] name = "search_web" -> search_web(args["query"], outcome)
           [] name = "fetch_user_info" -> fetch_user_info(args["passenger_id"])

\* _execute_tool(name, args, passenger_id), lines 71-108: the args dict as
\* the call leaves it, and the value returned.  An exception of the tool
\* is caught at line 106 and returned as a string.
execute_tool(name, args, passenger_id, outcome) ==
    LET injected == InjectPassenger(name, args, passenger_id)
        called == CallTool(name, injected, outcome)
    IN  IF name \notin tools
        THEN Booking(name, injected, TextResult(<<"Unknown tool: ", name>>))
        ELSE Booking(name, injected,
                     IF called.kind = "raise"
                     THEN TextResult(<<"Tool execution failed: ">> \o called.text)
                     ELSE called)

flight_words == << <<"f", "l", "i", "g", "h", "t">>, <<"f", "l", "y">>, <<"d", "e", "p", "a", "r", "t", "u", "r", "e">>, <<"a", "r", "r", "i", "v", "a", "l">> >>
hotel_words == << <<"h", "o", "t", "e", "l">>, <<"s", "t", "a", "y">>, <<"a", "c", "c", "o", "m", "m", "o", "d", "a", "t", "i", "o", "n">>, <<"r", "o", "o", "m">> >>
car_words == << <<"c", "a", "r">>, <<"r", "e", "n", "t", "a", "l">>, <<"v", "e", "h", "i", "c", "l", "e">>, <<"d", "r", "i", "v", "e">> >>
policy_words ==
    << <<"p", "o", "l", "i", "c", "y">>, <<"r", "u", "l", "e">>, <<"c", "a", "n", "c", "e", "l", "l", "a", "t", "i", "o", "n">>, <<"r", "e", "f", "u", "n", "d">>, <<"b", "a", "g", "g", "a", "g", "e">> >>
excursion_words ==
    << <<"e", "x", "c", "u", "r", "s", "i", "o", "n">>, <<"t", "o", "u", "r">>, <<"a", "c", "t", "i", "v", "i", "t", "y">>, <<"s", "i", "g", "h", "t", "s", "e", "e", "i", "n", "g">> >>
live_words == << <<"d", "e", "l", "a", "y">>, <<"s", "t", "a", "t", "u", "s">>, <<"l", "i", "v", "e">>, <<"c", "u", "r", "r", "e", "n", "t">>, <<"r", "e", "a", "l", "-", "t", "i", "m", "e">> >>

\* a chain that tests the hotel words before the flight words
RouteHotelFirst(query_lower) ==
    IF AnyIn(hotel_words, query_lower) THEN "hotels"
    ELSE IF AnyIn(flight_words, query_lower) THEN "flights"
    ELSE IF AnyIn(car_words, query_lower) THEN "cars"
    ELSE IF AnyIn(policy_words, query_lower) THEN "policy"
    ELSE IF AnyIn(excursion_words, query_lower) THEN "excursions"
    ELSE IF AnyIn(live_words, query_lower) THEN "web_search"
    ELSE "none"

\* lines 171-203: the if / elif chain; the result key of the branch taken,
\* "none" when no branch is taken
Route(query_lower) ==
    IF AnyIn(flight_words, query_lower) THEN "flights"
    ELSE IF AnyIn(hotel_words, query_lower) THEN "hotels"
    ELSE IF AnyIn(car_words, query_lower) THEN "cars"
    ELSE IF AnyIn(policy_words, query_lower) THEN "policy"
    ELSE IF AnyIn(excursion_words, query_lower) THEN "excursions"
    ELSE IF AnyIn(live_words, query_lower) THEN "web_search"
    ELSE "none"

\* the outcomes the environment can give the tool of a branch
ToolOutcomes(key, db) ==
    CASE key \in {"flights", "hotels", "cars", "excursions"} -> {db}
      [] key = "policy" -> RetrieverOutcomes
      [] key = "web_search" -> WebOutcomes
      [] key = "none" -> {"none"}

\* a hotel branch that books the place it extracted
RoutedCallBooks(key, user_query, location, outcome) ==
    CASE key = "flights" -> search_flights(location, FlightLimit, outcome)
      [] key = "hotels" -> book_hotel(location, <<"P", "1">>)
      [] key = "cars" -> search_cars(location, DefaultLimit, outcome)
      [] key = "policy" -> lookup_policy(user_query, outcome)
      [] key = "excursions" -> search_excursions(location, DefaultLimit, outcome)
      [] key = "web_search" -> search_web(user_query, outcome)

\* the call made by the branch taken
RoutedCall(key, user_query, location, outcome) ==
    CASE key = "flights" -> search_flights(location, FlightLimit, outcome)
      [] key = "hotels" -> search_hotels(location, DefaultLimit, outcome)
      [] key = "cars" -> search_cars(location, DefaultLimit, outcome)
      [] key = "policy" -> lookup_policy(user_query, outcome)
      [] key = "excursions" -> search_excursions(location, DefaultLimit, outcome)
      [] key = "web_search" -> search_web(user_query, outcome)

\* a user-info lookup made only when no branch of the chain was taken
WithUserInfoElse(tool_results, passenger_id) ==
    IF passenger_id # <<>> /\ DOMAIN tool_results = {}
    THEN ("user_info" :> fetch_user_info(passenger_id)) @@ tool_results
    ELSE tool_results

\* lines 205-207: the user-info lookup that follows the chain
WithUserInfo(tool_results, passenger_id) ==
    IF passenger_id # <<>>
    THEN ("user_info" :> fetch_user_info(passenger_id)) @@ tool_results
    ELSE tool_results

\* lines 163-211: the routing step.  One try block holds the chain and the
\* user-info lookup; a call that raises leaves the block, and the handler
\* adds the "error" entry to what the map held.
RoutingStep(user_query, passenger_id, outcome) ==
    LET query_lower == Lower(user_query)
        location == ExtractSearchParams(user_query)
        key == Route(query_lower)
        routed == IF key = "none" THEN TextResult(<<>>)
                  ELSE RoutedCall(key, user_query, location, outcome)
        after_chain == IF key = "none" THEN NoResults ELSE (key :> routed)
        info == fetch_user_info(passenger_id)
    IN  IF key # "none" /\ routed.kind = "raise"
        THEN ("error" :> TextResult(<<"Tool error: ">> \o routed.text)) @@ NoResults
        ELSE IF passenger_id # <<>> /\ info.kind = "raise"
        THEN ("error" :> TextResult(<<"Tool error: ">> \o info.text)) @@ after_chain
        ELSE WithUserInfo(after_chain, passenger_id)

\* a message content json.dumps cannot serialise (the history is a list of
\* Dict[str, Any]); every other content is a str
NotSerializable == <<"<object>">>

\* json.dumps(recent_history, indent=2), line 225
RECURSIVE DumpHistory(_)
DumpHistory(h) ==
    IF h = <<>> THEN <<>>
    ELSE <<"{\"role\": \"", h[1].role, "\", \"content\": \"">> \o h[1].content
         \o <<"\"}">> \o DumpHistory(Tail(h))

\* json.dumps(tool_results, indent=2, default=str), line 231
DumpResults(tool_results) ==
    LET keys == <<"flights", "hotels", "cars", "policy", "excursions",
                  "web_search", "user_info", "error">>
        F[i \in 0..Len(keys)] ==
            IF i = 0 THEN <<>>
            ELSE IF keys[i] \in DOMAIN tool_results
                 THEN F[i - 1] \o <<"\"", keys[i], "\": ">> \o tool_results[keys[i]].text
                 ELSE F[i - 1]
    IN  F[Len(keys)]

\* a dump of the tool results without default=str: rows of the store hold
\* values json.dumps rejects
SerializableWithoutDefault(recent_history, tool_results) ==
    /\ \A i \in 1..Len(recent_history) : recent_history[i].content # NotSerializable
    /\ \A k \in DOMAIN tool_results : tool_results[k].kind # "rows"

\* lines 225 and 231: whether both json.dumps calls of the prompt succeed.
\* The tool results are dumped with default=str, which takes any value.
Serializable(recent_history, tool_results) ==
    \A i \in 1..Len(recent_history) : recent_history[i].content # NotSerializable

\* a window over the oldest messages of the history
RecentHistoryOldest(history) ==
    IF Len(history) > 6 THEN SubSeq(history, 1, 6) ELSE history

\* line 218: history[-6:] if len(history) > 6 else history
HistoryWindow == 6
RecentHistory(history) ==
    IF Len(history) > HistoryWindow
    THEN SubSeq(history, Len(history) - HistoryWindow + 1, Len(history))
    ELSE history

\* lines 220-245: the prompt
BuildPrompt(recent_history, user_query, tool_results, user_info) ==
    <<"You are a helpful Swiss Airlines virtual assistant.\n\nCurrent UTC time: ",
      "<utcnow>", "Z\n\nRecent conversation history:\n">>
    \o DumpHistory(recent_history)
    \o <<"\n\nUser's current question:\n">> \o user_query
    \o <<"\n\nAvailable tool results (trusted data from systems):\n">>
    \o DumpResults(tool_results)
    \o <<"\n\nUser information:\n">>
    \o (IF user_info # <<>> THEN user_info ELSE <<"No user info available">>)
    \o <<"\n\nINSTRUCTIONS: ... Provide a helpful, accurate response:">>

GenerationApology ==
    <<"I", " ">> \o <<"a", "p", "o", "l", "o", "g", "i", "z", "e">>
    \o <<", but I'm having trouble generating a response right now. Please try again in a moment.">>

\* a generation that asks the secondary backend whatever the primary did
GenerateWithSecondary(prompt, ollama, client, gemini) ==
    refine_with_gemini(prompt, client, gemini)

\* lines 250-274: primary generation, and the fallback when it raises.
\* refine_with_gemini never raises, so the handler of line 272 that would
\* substitute GenerationApology is never entered.
Generate(prompt, ollama, client, gemini) ==
    IF ollama.ok THEN Strip(ollama.text)
    ELSE refine_with_gemini(prompt, client, gemini)

RefineInstruction == <<"Improve clarity and professionalism without adding facts:\n\n">>
GeminiMarker == <<"(", "G", "e", "m", "i", "n", "i">>

\* a condition that lets an apology through to the refinement pass
RefinementOfApologies(use_refinement, answer) ==
    /\ use_refinement
    /\ answer # <<>>

\* line 279: the condition of the refinement pass
RefinementAttempted(use_refinement, answer) ==
    /\ use_refinement
    /\ answer # <<>>
    /\ ~Contains(Lower(answer), <<"a", "p", "o", "l", "o", "g", "i", "z", "e">>)

\* line 285: the rewritten text is taken when non-empty and not marked
Accepts(refined) == refined # <<>> /\ ~StartsWith(refined, GeminiMarker)

\* lines 279-289: the refinement pass
Refine(answer, use_refinement, client, gemini) ==
    IF RefinementAttempted(use_refinement, answer)
    THEN LET refined == refine_with_gemini(RefineInstruction \o answer, client, gemini)
         IN  IF Accepts(refined) THEN refined ELSE answer
    ELSE answer

\* an append to the unpacked history, which lacks the last message
AppendAnswerToHistory(messages, answer) ==
    Append(SubSeq(messages, 1, Len(messages) - 1), Message("assistant", answer))

\* lines 294-299: messages.append({...}); state["messages"] = messages
AppendAnswer(messages, answer) == Append(messages, Message("assistant", answer))

\* lines 154-302: agent on a conversation that has a last message
AgentTurn(messages, passenger_id, user_info, cfg, env) ==
    LET history == SubSeq(messages, 1, Len(messages) - 1)
        user_query == messages[Len(messages)].content
        tool_results == RoutingStep(user_query, passenger_id, env.tool)
        recent_history == RecentHistory(history)
        routing == [NoTurn EXCEPT !.ran = TRUE, !.user_query = user_query,
                       !.location = ExtractSearchParams(user_query),
                       !.routed = Route(Lower(user_query)),
                       !.tool_results = tool_results,
                       !.recent_history = recent_history,
                       !.trace = <<"route">>, !.messages = messages]
    IN  IF ~Serializable(recent_history, tool_results)
        THEN [routing EXCEPT !.raised = TRUE]
        ELSE
        LET prompt == BuildPrompt(recent_history, user_query, tool_results, user_info)
            generated == Generate(prompt, env.ollama, cfg.client, env.fallback)
            answer == Refine(generated, cfg.use_refinement, cfg.client, env.rewrite)
            steps == <<"route", "aggregate", "primary">>
                     \o (IF env.ollama.ok THEN <<>> ELSE <<"fallback">>)
                     \o (IF RefinementAttempted(cfg.use_refinement, generated)
                         THEN <<"refine">> ELSE <<>>)
                     \o <<"append">>
        IN  [routing EXCEPT !.prompt = prompt, !.generated = generated,
                            !.answer = answer, !.trace = steps,
                            !.messages = AppendAnswer(messages, answer)]

\* an agent that answers the empty conversation instead of refusing it
agent_EmptyAnswered(messages, passenger_id, user_info, cfg, env) ==
    IF messages = <<>>
    THEN [NoTurn EXCEPT !.ran = TRUE, !.answer = GenerationApology,
                        !.trace = <<"append">>,
                        !.messages = <<Message("assistant", GenerationApology)>>]
    ELSE AgentTurn(messages, passenger_id, user_info, cfg, env)

\* agent(state): the messages it leaves in state["messages"] and what it
\* computed on the way.  raised: the call ended with an exception, and
\* state["messages"] is as it was.  Lines 151-152: a state without
\* messages is refused before anything else is done.
agent(messages, passenger_id, user_info, cfg, env) ==
    IF messages = <<>>
    THEN [NoTurn EXCEPT !.raised = TRUE, !.ran = TRUE]
    ELSE AgentTurn(messages, passenger_id, user_info, cfg, env)

(* ------------------------- graph/workflow.py -------------------------- *)

\* line 73: the retained-history window
MaxMessages == 10

WorkflowApology ==
    <<"I", " ">> \o <<"a", "p", "o", "l", "o", "g", "i", "z", "e">>
    \o <<", but I encountered an error processing your request. Please try again.">>

\* a trim that drops one message more than it has to
LastMessagesDropsOneMore(messages) ==
    IF Len(messages) > MaxMessages
    THEN SubSeq(messages, Len(messages) - MaxMessages + 2, Len(messages))
    ELSE messages

\* a trim that keeps the oldest messages instead of the newest
LastMessagesKeepsOldest(messages) ==
    IF Len(messages) > MaxMessages THEN SubSeq(messages, 1, MaxMessages) ELSE messages

\* lines 72-77: messages[-10:] when there are more than 10
LastMessages(messages) ==
    IF Len(messages) > MaxMessages
    THEN SubSeq(messages, Len(messages) - MaxMessages + 1, Len(messages))
    ELSE messages

\* a handler that logs the agent's error and appends no apology
run_graph_v4_NoApology(user_input, passenger_id, user_info, history, cfg, env) ==
    LET state_messages == Append(history, Message("user", user_input))
        r == agent(state_messages, passenger_id, user_info, cfg, env)
    IN  Outcome(r, IF Len(r.messages) > MaxMessages
                   THEN SubSeq(r.messages, Len(r.messages) - MaxMessages + 1, Len(r.messages))
                   ELSE r.messages)

\* a state built from the history alone, without the new user message
run_graph_v4_HistoryOnly(user_input, passenger_id, user_info, history, cfg, env) ==
    LET r == agent(history, passenger_id, user_info, cfg, env)
        messages == IF r.raised
                    THEN Append(history, Message("assistant", WorkflowApology))
                    ELSE r.messages
    IN  Outcome(r, LastMessages(messages))

\* run_graph_v4(user_input, config, history): the list returned, and the
\* agent's record of the turn
run_graph_v4(user_input, passenger_id, user_info, history, cfg, env) ==
    LET state_messages == Append(history, Message("user", user_input))
        r == agent(state_messages, passenger_id, user_info, cfg, env)
        messages == IF r.raised
                    THEN Append(state_messages, Message("assistant", WorkflowApology))
                    ELSE r.messages
    IN  Outcome(r, LastMessages(messages))

(* ------------------------ the policy retriever ------------------------ *)

\* the number of chunks of the corpus, the largest coordinate of an
\* embedding, and the largest k asked for
MaxDocs == 2
MaxCoord == 1
MaxK == 3

\* embeddings, here of dimension 2
Vectors == {<<x, y>> : x \in 0..MaxCoord, y \in 0..MaxCoord}

\* lines 38-42: the i-th section of the FAQ text
Section(i) == <<"## Section ", ToString(i)>>

\* lines 49-55: the retriever holds the chunks and one stored vector each
Retriever(docs, arr) == [docs |-> docs, arr |-> arr]
NoRetriever == Retriever(<<>>, <<>>)

\* lines 63-69, 110: the corpus with the vectors the service gave at load
Retrievers ==
    UNION {{Retriever([i \in 1..n |-> Section(i)], arr) : arr \in [1..n -> Vectors]} :
           n \in 1..MaxDocs}

\* lines 86-90: what the embedding service does with the query
Embedded(v) == [ok |-> TRUE, vector |-> v]
EmbeddingFails == [ok |-> FALSE, vector |-> <<>>]
Embeddings == {EmbeddingFails} \cup {Embedded(v) : v \in Vectors}

L2(a, b) == (a[1] - b[1]) * (a[1] - b[1]) + (a[2] - b[2]) * (a[2] - b[2])
\* line 92: np.dot
Dot(a, b) == a[1] * b[1] + a[2] * b[2]

\* a search that ranks by inner product, largest first
IndexSearchByInnerProduct(arr, query_emb, k) ==
    LET n == Len(arr)
        Before(m, i) ==
            \/ Dot(arr[m], query_emb) > Dot(arr[i], query_emb)
            \/ Dot(arr[m], query_emb) = Dot(arr[i], query_emb) /\ m < i
        Ranked(j) == CHOOSE i \in 1..n : Cardinality({m \in 1..n : Before(m, i)}) = j - 1
    IN  [j \in 1..k |-> IF j <= n THEN Ranked(j) ELSE 0]

\* lines 54, 91: IndexFlatL2.search: the positions of the k stored vectors
\* nearest to the query by L2 distance, nearest first, of two equally
\* distant ones the earlier first, and -1 where the index holds fewer than
\* k.  Positions count from 1 here, so that -1 reads 0.
IndexSearch(arr, query_emb, k) ==
    LET n == Len(arr)
        Before(m, i) ==
            \/ L2(arr[m], query_emb) < L2(arr[i], query_emb)
            \/ L2(arr[m], query_emb) = L2(arr[i], query_emb) /\ m < i
        Ranked(j) == CHOOSE i \in 1..n : Cardinality({m \in 1..n : Before(m, i)}) = j - 1
    IN  [j \in 1..k |-> IF j <= n THEN Ranked(j) ELSE 0]

\* lines 96-97: list[i] for a position of the search; list[-1] is the last
\* element
At(list, i) == IF i = 0 THEN list[Len(list)] ELSE list[i]

\* lines 85-105: VectorStoreRetriever.query over the stored vectors: the
\* chunks at the positions found with their dot-product scores, and []
\* when the embedding call raises
VectorStoreRetriever_results(self, embed, k) ==
    IF ~embed.ok THEN <<>>
    ELSE LET indices == IndexSearch(self.arr, embed.vector, k)
             scores == [i \in 1..Len(self.arr) |-> Dot(embed.vector, self.arr[i])]
         IN  [j \in 1..k |->
                 [page_content |-> At(self.docs, indices[j]),
                  similarity |-> At(scores, indices[j])]]

(* ---------- flight_booking.py, hotel_booking.py, car_rental.py ---------- *)

\* the characters a row of the store takes in json.dumps(result, indent=2)
RowWidth == 50
RowDump == [i \in 1..RowWidth |-> "r"]

\* the characters of one piece of a tool's text.  Three pieces stand for a
\* message of the environment and get a text of its kind: str(e) of a store
\* or client error, of the TypeError of a call whose keywords do not bind,
\* and the formatted results of a web search.
Spell(piece) ==
    CASE piece = "Database error: " ->
            <<"D", "a", "t", "a", "b", "a", "s", "e", " ", "e", "r", "r", "o", "r", ":", " ">>
      [] piece = "No flights found for your criteria. Try broader search or different airports." ->
            <<"N", "o", " ", "f", "l", "i", "g", "h", "t", "s", " ", "f", "o", "u", "n", "d", " ", "f", "o", "r", " ", "y", "o", "u", "r", " ", "c", "r", "i", "t", "e", "r", "i", "a", ".", " ", "T", "r", "y", " ", "b", "r", "o", "a", "d", "e", "r", " ", "s", "e", "a", "r", "c", "h", " ", "o", "r", " ", "d", "i", "f", "f", "e", "r", "e", "n", "t", " ", "a", "i", "r", "p", "o", "r", "t", "s", ".">>
      [] piece = "No hotels found in " ->
            <<"N", "o", " ", "h", "o", "t", "e", "l", "s", " ", "f", "o", "u", "n", "d", " ", "i", "n", " ">>
      [] piece = ". Try a different location." ->
            <<".", " ", "T", "r", "y", " ", "a", " ", "d", "i", "f", "f", "e", "r", "e", "n", "t", " ", "l", "o", "c", "a", "t", "i", "o", "n", ".">>
      [] piece = "Mock search result: No significant flight delays reported for Swiss Airlines today. (Configure TAVILY_API_KEY in .env for live web search capability.)" ->
            <<"M", "o", "c", "k", " ", "s", "e", "a", "r", "c", "h", " ", "r", "e", "s", "u", "l", "t", ":", " ", "N", "o", " ", "s", "i", "g", "n", "i", "f", "i", "c", "a", "n", "t", " ", "f", "l", "i", "g", "h", "t", " ", "d", "e", "l", "a", "y", "s", " ", "r", "e", "p", "o", "r", "t", "e", "d", " ", "f", "o", "r", " ", "S", "w", "i", "s", "s", " ", "A", "i", "r", "l", "i", "n", "e", "s", " ", "t", "o", "d", "a", "y", ".", " ", "(", "C", "o", "n", "f", "i", "g", "u", "r", "e", " ", "T", "A", "V", "I", "L", "Y", "_", "A", "P", "I", "_", "K", "E", "Y", " ", "i", "n", " ", ".", "e", "n", "v", " ", "f", "o", "r", " ", "l", "i", "v", "e", " ", "w", "e", "b", " ", "s", "e", "a", "r", "c", "h", " ", "c", "a", "p", "a", "b", "i", "l", "i", "t", "y", ".", ")">>
      [] piece = "No web results found for your query." ->
            <<"N", "o", " ", "w", "e", "b", " ", "r", "e", "s", "u", "l", "t", "s", " ", "f", "o", "u", "n", "d", " ", "f", "o", "r", " ", "y", "o", "u", "r", " ", "q", "u", "e", "r", "y", ".">>
      [] piece = "Web search temporarily unavailable. Error: " ->
            <<"W", "e", "b", " ", "s", "e", "a", "r", "c", "h", " ", "t", "e", "m", "p", "o", "r", "a", "r", "i", "l", "y", " ", "u", "n", "a", "v", "a", "i", "l", "a", "b", "l", "e", ".", " ", "E", "r", "r", "o", "r", ":", " ">>
      [] piece = "Ticket " ->
            <<"T", "i", "c", "k", "e", "t", " ">>
      [] piece = " successfully updated to flight " ->
            <<" ", "s", "u", "c", "c", "e", "s", "s", "f", "u", "l", "l", "y", " ", "u", "p", "d", "a", "t", "e", "d", " ", "t", "o", " ", "f", "l", "i", "g", "h", "t", " ">>
      [] piece = "Hotel " ->
            <<"H", "o", "t", "e", "l", " ">>
      [] piece = " successfully booked for passenger " ->
            <<" ", "s", "u", "c", "c", "e", "s", "s", "f", "u", "l", "l", "y", " ", "b", "o", "o", "k", "e", "d", " ", "f", "o", "r", " ", "p", "a", "s", "s", "e", "n", "g", "e", "r", " ">>
      [] piece = "No passenger ID provided. Authorization required." ->
            <<"N", "o", " ", "p", "a", "s", "s", "e", "n", "g", "e", "r", " ", "I", "D", " ", "p", "r", "o", "v", "i", "d", "e", "d", ".", " ", "A", "u", "t", "h", "o", "r", "i", "z", "a", "t", "i", "o", "n", " ", "r", "e", "q", "u", "i", "r", "e", "d", ".">>
      [] piece = "Ticket number and new flight ID are required." ->
            <<"T", "i", "c", "k", "e", "t", " ", "n", "u", "m", "b", "e", "r", " ", "a", "n", "d", " ", "n", "e", "w", " ", "f", "l", "i", "g", "h", "t", " ", "I", "D", " ", "a", "r", "e", " ", "r", "e", "q", "u", "i", "r", "e", "d", ".">>
      [] piece = "Hotel ID is required." ->
            <<"H", "o", "t", "e", "l", " ", "I", "D", " ", "i", "s", " ", "r", "e", "q", "u", "i", "r", "e", "d", ".">>
      [] piece = "search_flights" ->
            <<"s", "e", "a", "r", "c", "h", "_", "f", "l", "i", "g", "h", "t", "s">>
      [] piece = "update_ticket_to_new_flight" ->
            <<"u", "p", "d", "a", "t", "e", "_", "t", "i", "c", "k", "e", "t", "_", "t", "o", "_", "n", "e", "w", "_", "f", "l", "i", "g", "h", "t">>
      [] piece = "search_web" ->
            <<"s", "e", "a", "r", "c", "h", "_", "w", "e", "b">>
      [] piece = "search_hotels" ->
            <<"s", "e", "a", "r", "c", "h", "_", "h", "o", "t", "e", "l", "s">>
      [] piece = "book_hotel" ->
            <<"b", "o", "o", "k", "_", "h", "o", "t", "e", "l">>
      [] piece = "book_car" ->
            <<"b", "o", "o", "k", "_", "c", "a", "r">>
      [] piece = "<e>" -> <<"u", "n", "a", "b", "l", "e", " ", "t", "o", " ", "o", "p", "e", "n", " ", "d", "a", "t", "a", "b", "a", "s", "e", " ", "f", "i", "l", "e">>
      [] piece = "<TypeError>" -> <<"g", "o", "t", " ", "a", "n", " ", "u", "n", "e", "x", "p", "e", "c", "t", "e", "d", " ", "k", "e", "y", "w", "o", "r", "d", " ", "a", "r", "g", "u", "m", "e", "n", "t">>
      [] piece = "<formatted results>" -> [i \in 1..RowWidth |-> "w"]
      [] OTHER -> <<piece>>

\* the characters of a text
RECURSIVE Chars(_)
Chars(text) == IF text = <<>> THEN <<>> ELSE Spell(text[1]) \o Chars(Tail(text))

RECURSIVE DumpRows(_)
DumpRows(n) ==
    IF n = 0 THEN <<>>
    ELSE IF n = 1 THEN RowDump
    ELSE RowDump \o <<",">> \o DumpRows(n - 1)

\* json.dumps(result, default=str, indent=2) of a search tool's result: a
\* list of rows, or a string in quotes
Dumps(result) ==
    IF result.kind = "rows" THEN <<"[">> \o DumpRows(Len(result.text)) \o <<"]">>
    ELSE <<"\"">> \o Chars(result.text) \o <<"\"">>

Assistants == {"flight_assistant", "hotel_assistant"}

\* flight_tools, hotel_tools: the tools offered to the selection backend
OfferedTools(a) ==
    IF a = "flight_assistant"
    THEN {"search_flights", "update_ticket_to_new_flight", "search_web"}
    ELSE {"search_hotels", "book_hotel", "search_web"}

\* tool_response: the selection call fails, or it answers without a tool
\* call, or with one; tool_call.function.arguments is a string that
\* json.loads takes (valid), giving args, or rejects
Selection(ok, called, name, valid, args) ==
    [ok |-> ok, args |-> args, name |-> name, called |-> called, valid |-> valid]
SelectionFails == Selection(FALSE, FALSE, "none", TRUE, <<>>)
NoToolCall == Selection(TRUE, FALSE, "none", TRUE, <<>>)
ToolCall(name, args) == Selection(TRUE, TRUE, name, TRUE, args)
MalformedCall(name) == Selection(TRUE, TRUE, name, FALSE, <<>>)

\* flight_booking.py 113-116, hotel_booking.py 98-101
SelectionApology(a) ==
    IF a = "flight_assistant"
    THEN <<"I'm having trouble accessing flight information right now. Please try again.">>
    ELSE <<"I'm having trouble accessing hotel information. Please try again.">>

\* flight_booking.py 150, hotel_booking.py 132
NoToolNeeded(a) ==
    IF a = "flight_assistant"
    THEN <<"N", "o", " ", "s", "p", "e", "c", "i", "f", "i", "c", " ", "f", "l", "i", "g", "h", "t", " ", "t", "o", "o", "l", " ", "n", "e", "e", "d", "e", "d", ".", " ", "U", "s", "i", "n", "g", " ", "g", "e", "n", "e", "r", "a", "l", " ", "k", "n", "o", "w", "l", "e", "d", "g", "e", ".">>
    ELSE <<"N", "o", " ", "s", "p", "e", "c", "i", "f", "i", "c", " ", "h", "o", "t", "e", "l", " ", "t", "o", "o", "l", " ", "n", "e", "e", "d", "e", "d", ".">>

\* flight_booking.py 142-143; hotel_booking.py has no such branch and
\* leaves tool_result = ""
ToolNotFound(a) == IF a = "flight_assistant" THEN <<"T", "o", "o", "l", " ", "n", "o", "t", " ", "f", "o", "u", "n", "d">> ELSE <<>>

\* flight_booking.py 148, hotel_booking.py 130
ErrorPrefix(a, func_name) ==
    IF a = "flight_assistant"
    THEN <<"E", "r", "r", "o", "r", " ", "e", "x", "e", "c", "u", "t", "i", "n", "g", " ">> \o Spell(func_name) \o <<":", " ">>
    ELSE <<"E", "r", "r", "o", "r", ":", " ">>

\* flight_booking.py 184, hotel_booking.py 160
FormattingPrefix(a) ==
    IF a = "flight_assistant"
    THEN <<"I found flight information but had trouble formatting it. Raw data: ">>
    ELSE <<"Hotel information: ">>

\* flight_booking.py 130-131, hotel_booking.py 114-115: a passenger_id key
\* that is there and falsy takes the session's passenger_id
InjectIfEmpty(args, passenger_id) ==
    IF "passenger_id" \in DOMAIN args /\ args["passenger_id"] = <<>>
    THEN [args EXCEPT !["passenger_id"] = passenger_id]
    ELSE args

\* flight_booking.py 128-148, hotel_booking.py 113-130: the try block of
\* stage 2: the call made and the text left in tool_result; a string
\* result is taken with str(result), a search's with json.dumps
ExecuteStage(a, func_name, args, passenger_id, outcome) ==
    LET injected == InjectIfEmpty(args, passenger_id)
        found == func_name \in OfferedTools(a)
        called == IF found THEN CallTool(func_name, injected, outcome) ELSE TextResult(<<>>)
    IN  [call |-> Booking(func_name, injected, called),
         tool_result |->
              IF ~found THEN ToolNotFound(a)
              ELSE IF called.kind = "raise" THEN ErrorPrefix(a, func_name) \o Chars(called.text)
              ELSE IF func_name \in {"search_flights", "search_hotels"} THEN Dumps(called)
              ELSE Chars(called.text)]

\* flight_booking.py 184: the characters of the tool result that the reply
\* of a failed generation quotes
RawLimit == 200

\* a quote of the whole tool result
RawDataWhole(tool_result) == tool_result

\* tool_result[:200]
RawData(tool_result) ==
    IF Len(tool_result) > RawLimit THEN SubSeq(tool_result, 1, RawLimit) ELSE tool_result

\* flight_booking.py 174-184, hotel_booking.py 147-160: stage 3
GenerateStage(a, tool_result, ollama) ==
    IF ollama.ok THEN Strip(ollama.text)
    ELSE FormattingPrefix(a) \o RawData(tool_result)

\* flight_booking.py 153, hotel_booking.py 135: "\n".join of the last 4
\* messages
RECURSIVE HistoryText(_)
HistoryText(h) ==
    IF h = <<>> THEN <<>>
    ELSE IF Len(h) > 4 THEN HistoryText(SubSeq(h, Len(h) - 3, Len(h)))
    ELSE <<h[1].role, ": ">> \o h[1].content
         \o (IF Len(h) > 1 THEN <<"\n">> \o HistoryText(Tail(h)) ELSE <<>>)

\* flight_booking.py 155-172, hotel_booking.py 137-145
SpecialistPrompt(a, messages, user_query, tool_result) ==
    IF a = "flight_assistant"
    THEN <<"You are a Swiss Airlines flight expert assistant.\n\nConversation history:\n">>
         \o HistoryText(messages) \o <<"\n\nUser's question: ">> \o user_query
         \o <<"\n\nTool result (trusted data):\n">> \o tool_result
         \o <<"\n\nInstructions: ... Your response:">>
    ELSE <<"You are a Swiss Airlines hotel booking assistant.\n\nHistory: ">>
         \o HistoryText(messages) \o <<"\nUser: ">> \o user_query
         \o <<"\nTool result: ">> \o tool_result
         \o <<"\n\nProvide a natural, helpful response about hotels. Be conversational and clear.\n\nResponse:">>

\* a handler of the selection failure that appends nothing
ShortCircuitSilent(a, started) ==
    [started EXCEPT !.trace = <<"select">>]

\* flight_booking.py 111-117, hotel_booking.py 96-102: the apology is
\* appended and the state returned
ShortCircuit(a, started) ==
    [started EXCEPT !.answer = SelectionApology(a),
                    !.trace = <<"select", "append">>,
                    !.messages = Append(started.messages,
                                        Message("assistant", SelectionApology(a)))]

\* the tool call of stage 2, if the turn comes to one
SpecialistCall(a, passenger_id, selection, outcome) ==
    IF selection.ok /\ selection.called /\ selection.valid
    THEN ExecuteStage(a, selection.name, selection.args, passenger_id, outcome).call
    ELSE NoBooking

\* a stage 2 that goes through every tool call of the answer
ExecutedCallsEvery(a, passenger_id, selection, more, outcome) ==
    LET all == IF selection.ok /\ selection.called /\ selection.valid
               THEN <<selection>> \o more ELSE <<>>
        offered == SelectSeq(all, LAMBDA c : c.name \in OfferedTools(a))
    IN  [i \in 1..Len(offered) |->
            ExecuteStage(a, offered[i].name, offered[i].args, passenger_id, outcome).call]

\* flight_booking.py 121-143, hotel_booking.py 106-125: the tools stage 2
\* runs: that of tool_calls[0], if its name has a branch; the tool calls
\* after the first are not looked at
ExecutedCalls(a, passenger_id, selection, more, outcome) ==
    IF selection.ok /\ selection.called /\ selection.valid
       /\ selection.name \in OfferedTools(a)
    THEN <<ExecuteStage(a, selection.name, selection.args, passenger_id, outcome).call>>
    ELSE <<>>

\* flight_assistant(state), hotel_assistant(state): state["messages"] as
\* the call leaves it and what it computed on the way.  json.loads is
\* called before the try block of stage 2 (flight_booking.py 124,
\* hotel_booking.py 109): arguments it rejects end the call with an
\* exception.
specialist(a, messages, passenger_id, selection, outcome, ollama) ==
    LET user_query == IF messages # <<>> THEN messages[Len(messages)].content ELSE <<>>
        started == [NoTurn EXCEPT !.ran = TRUE, !.user_query = user_query, !.routed = a,
                                  !.trace = <<"select">>, !.messages = messages]
    IN  IF ~selection.ok THEN ShortCircuit(a, started)
        ELSE IF selection.called /\ ~selection.valid THEN [started EXCEPT !.raised = TRUE]
        ELSE
        LET tool_result ==
                IF selection.called
                THEN ExecuteStage(a, selection.name, selection.args, passenger_id,
                                  outcome).tool_result
                ELSE NoToolNeeded(a)
            bot_content == GenerateStage(a, tool_result, ollama)
        IN  [started EXCEPT
                !.tool_results = tool_result,
                !.prompt = SpecialistPrompt(a, messages, user_query, tool_result),
                !.generated = IF ollama.ok THEN Strip(ollama.text) ELSE <<>>,
                !.answer = bot_content,
                !.trace = <<"select">> \o (IF selection.called THEN <<"execute">> ELSE <<>>)
                          \o <<"generate", "append">>,
                !.messages = Append(messages, Message("assistant", bot_content))]

\* car_rental.py 15-21: the last message's content is rewritten in place
Enhanced(messages) ==
    IF messages = <<>> THEN messages
    ELSE [messages EXCEPT ![Len(messages)].content = <<"[", "C", "a", "r", " ", "R", "e", "n", "t", "a", "l", " ", "Q", "u", "e", "r", "y", "]", " ">> \o @]

\* car_rental.py car_rental_assistant
car_rental_assistant(messages, passenger_id, user_info, cfg, env) ==
    agent(Enhanced(messages), passenger_id, user_info, cfg, env)

(* ----------------------------- the state ------------------------------ *)

VARIABLES
    history,        \* the history handed to run_graph_v4
    passenger_id,   \* config["passenger_id"]
    user_info,      \* config["user_info"]
    config,         \* USE_GEMINI_REFINEMENT and whether gemini_refiner._client is set
    user_input,     \* the utterance of the turn
    env,            \* what the tools and the backends did during the turn
    turn,           \* what the agent computed during the turn
    result,         \* the list run_graph_v4 returned
    booking,        \* the last direct call of a tool and what came of it
    store,          \* the database, as a query sees it
    args_in,        \* the args dict handed to _execute_tool, as the caller built it
    retriever,      \* policy.py's retriever: the chunks and their stored vectors
    turns,          \* the turns of the session so far
    assistant,      \* the specialist that was called, if one was
    selection,      \* what the tool-selection backend answered the specialist
    more_calls,     \* the tool calls of that answer after the first
    executed,       \* the tool calls the specialist executed
    processing,     \* st.session_state.processing
    pc              \* "ready" before the turn, "done" after it

vars == <<history, passenger_id, user_info, config, user_input, env, turn, result, booking,
          store, args_in, retriever, turns, assistant, selection, more_calls, executed,
          processing, pc>>

(* ------------------------------ inputs -------------------------------- *)

Vocabulary ==
    { <<"f", "l", "i", "g", "h", "t">>, <<"H", "o", "t", "e", "l">>, <<"c", "a", "r">>, <<"r", "e", "f", "u", "n", "d">>, <<"t", "o", "u", "r">>, <<"s", "t", "a", "t", "u", "s">>,
      <<"J", "F", "K">>, <<"l", "h", "r">>, <<"P", "a", "r", "i", "s">>, <<"n", "e", "w", " ", "y", "o", "r", "k">>, <<"h", "i">> }

\* utterances: at most MaxWords words of Vocabulary, joined by blanks
Utterances == {Join(ws) : ws \in SeqsUpTo(Vocabulary, MaxWords)}

\* the utterances of the specification that varies the backends
TurnUtterances == { <<"h", "i">>, <<"H", "o", "t", "e", "l", " ", "P", "a", "r", "i", "s">>, <<"r", "e", "f", "u", "n", "d">>, <<"s", "t", "a", "t", "u", "s">>, <<"d", "o", " ", "n", "o", "t", " ", "a", "p", "o", "l", "o", "g", "i", "z", "e">> }

PassengerIds == {<<>>, <<"P", "1">>}
Configs == {Config(u, c) : u \in BOOLEAN, c \in BOOLEAN}

\* completions of the primary backend: empty, blank, padded, an apology
OllamaOutcomes ==
    {BackendFails} \cup
    {Completes(t) : t \in {<<>>, <<" ">>, <<" ", "L", "X", "1", "2", "3", " ", "a", "t", " ", "9", " ">>, <<"I", " ", "A", "p", "o", "l", "o", "g", "i", "z", "e">>}}

\* completions of the secondary backend: empty, padded, marked as a failure
GeminiOutcomes ==
    {BackendFails} \cup
    {Completes(t) : t \in {<<>>, <<"G", "a", "t", "e", " ", "A", "5", " ">>, <<"(", "G", "e", "m", "i", "n", "i", " ", "d", "o", "w", "n", ")">>}}

\* a backend that is not called during the turn has no outcome to choose
FallbackOutcomes(cfg, ollama) ==
    IF ~ollama.ok /\ cfg.client THEN GeminiOutcomes ELSE {BackendFails}
RewriteOutcomes(cfg) ==
    IF cfg.use_refinement /\ cfg.client THEN GeminiOutcomes ELSE {BackendFails}

HistoryMessages ==
    {Message("user", <<"h", "i">>), Message("assistant", <<"w", "e", " ", "a", "p", "o", "l", "o", "g", "i", "z", "e">>)}

\* the messages of the long histories; the second is one json.dumps rejects
WorkflowMessages ==
    {Message("user", <<"h", "i">>), Message("assistant", NotSerializable)}

Digits == {"4", "7"}
\* identifiers and passenger ids given to the booking tools; <<>> is the
\* empty (or missing) argument
Identifiers == SeqsUpTo(Digits, MaxIdLen)

(* ------------------------------ actions ------------------------------- *)

\* one call of run_graph_v4 with the utterance q in an environment
Process(q, e) ==
    \E r \in {run_graph_v4(q, passenger_id, user_info, history, config, e)} :
        /\ pc = "ready"
        /\ pc' = "done"
        /\ user_input' = q
        /\ env' = e
        /\ turn' = r.turn_record
        /\ result' = r.returned
        /\ UNCHANGED <<more_calls, executed, processing, retriever, turns, assistant, selection, history, passenger_id, user_info,
                       config, booking, store, args_in>>

\* a turn, over every outcome of the tools and of both backends
ProcessTurn ==
    /\ pc = "ready"
    /\ \E q \in TurnUtterances :
        \E tool \in ToolOutcomes(Route(Lower(q)), store), ollama \in OllamaOutcomes :
            \E fallback \in FallbackOutcomes(config, ollama),
               rewrite \in RewriteOutcomes(config) :
                Process(q, Env(tool, ollama, fallback, rewrite))

\* a turn, over every utterance and every outcome of the routed tool
RouteTurn ==
    /\ pc = "ready"
    /\ \E q \in Utterances :
        \E tool \in ToolOutcomes(Route(Lower(q)), store),
           ollama \in {BackendFails, Completes(<<" ", "L", "X", "1", "2", "3", " ", "a", "t", " ", "9", " ">>)} :
            Process(q, Env(tool, ollama, BackendFails, BackendFails))

\* the utterance of the flight-search scenario
ScenarioUtterance == <<"S", "h", "o", "w", " ", "m", "e", " ", "f", "l", "i", "g", "h", "t", "s", " ", "f", "r", "o", "m", " ", "Z", "u", "r", "i", "c", "h">>

\* the scenario's turn, over every outcome of the routed tool
ScenarioTurn ==
    /\ pc = "ready"
    /\ \E tool \in ToolOutcomes(Route(Lower(ScenarioUtterance)), store),
          ollama \in {BackendFails, Completes(<<" ", "L", "X", "1", "2", "3", " ", "a", "t", " ", "9", " ">>)} :
           Process(ScenarioUtterance, Env(tool, ollama, BackendFails, BackendFails))

\* a turn on a long history
WorkflowTurn ==
    \E ollama \in {BackendFails, Completes(<<>>), Completes(<<" ", "L", "X", "1", "2", "3", " ", "a", "t", " ", "9", " ">>)} :
        Process(<<"h", "i">>, Env("none", ollama, BackendFails, BackendFails))

\* the messages agent is called on without the workflow
AgentMessages == HistoryMessages \cup {Message("user", <<"H", "o", "t", "e", "l", " ", "P", "a", "r", "i", "s">>)}

\* agent called on state["messages"] = history, without the workflow; the
\* last message, if there is one, is the query
CallAgent ==
    LET q == IF history = <<>> THEN <<>> ELSE history[Len(history)].content
    IN  \E tool \in ToolOutcomes(Route(Lower(q)), store), ollama \in OllamaOutcomes :
            \E fallback \in FallbackOutcomes(config, ollama),
               rewrite \in RewriteOutcomes(config) :
                LET e == Env(tool, ollama, fallback, rewrite)
                    r == agent(history, passenger_id, user_info, config, e)
                IN  /\ pc = "ready"
                    /\ pc' = "done"
                    /\ env' = e
                    /\ turn' = r
                    /\ result' = r.messages
                    /\ UNCHANGED <<more_calls, executed, processing, retriever, turns, assistant, selection, history, passenger_id, user_info, config, user_input,
                                   booking, store, args_in>>

\* the keys a caller puts into the args dict of a tool, and their values
ArgNames(name) ==
    IF name \in tools
    THEN Required(name) \cup {"passenger_id"}
         \cup (IF name = "search_flights" THEN {"departure_airport"} ELSE {})
    ELSE {"passenger_id"}
ArgValues(k) ==
    CASE k \in {"location", "departure_airport"} -> {<<>>, <<"P", "a", "r", "i", "s">>}
      [] k = "query" -> {<<"r", "e", "f", "u", "n", "d">>}
      [] OTHER -> Identifiers
ArgDicts(name) ==
    UNION {{f \in [d -> Identifiers \cup {<<"P", "a", "r", "i", "s">>, <<"r", "e", "f", "u", "n", "d">>}] :
                \A k \in d : f[k] \in ArgValues(k)} : d \in SUBSET ArgNames(name)}

\* what the store, the retriever or the web client does for a dispatched tool
DispatchOutcomes(name, db) ==
    CASE name \in {"search_flights", "search_hotels", "search_cars", "search_excursions"} -> {db}
      [] name = "lookup_policy" -> RetrieverOutcomes
      [] name = "search_web" -> WebOutcomes
      [] OTHER -> {"none"}

\* one call of _execute_tool with the session's passenger_id
ExecuteTool ==
    \E name \in tools \cup {"cancel_trip"} :
        \E args \in ArgDicts(name), outcome \in DispatchOutcomes(name, store) :
            /\ pc = "ready"
            /\ pc' = "done"
            /\ args_in' = args
            /\ env' = Env(outcome, BackendFails, BackendFails, BackendFails)
            /\ booking' = execute_tool(name, args, passenger_id, outcome)
            /\ UNCHANGED <<more_calls, executed, processing, retriever, turns, assistant, selection, history, passenger_id, user_info, config, user_input, turn, result,
                           store>>

\* direct calls of the search tools, of lookup_policy and of search_web
Locations == {<<>>, <<"P", "a", "r", "i", "s">>}
Limits == {1, FlightLimit, DefaultLimit}
Queries == {<<"r", "e", "f", "u", "n", "d">>, <<"s", "t", "a", "t", "u", "s">>}

SearchFlights ==
    \E departure_airport \in Locations, limit \in Limits :
        /\ pc = "ready"
        /\ pc' = "done"
        /\ booking' = Booking("search_flights", <<departure_airport, limit>>,
                            search_flights(departure_airport, limit, store))
        /\ UNCHANGED <<more_calls, executed, processing, retriever, turns, assistant, selection, history, passenger_id, user_info, config, user_input, env, turn, result,
                       store, args_in>>

SearchHotels ==
    \E location \in Locations, limit \in Limits :
        /\ pc = "ready"
        /\ pc' = "done"
        /\ booking' = Booking("search_hotels", <<location, limit>>,
                            search_hotels(location, limit, store))
        /\ UNCHANGED <<more_calls, executed, processing, retriever, turns, assistant, selection, history, passenger_id, user_info, config, user_input, env, turn, result,
                       store, args_in>>

SearchCars ==
    \E location \in Locations, limit \in Limits :
        /\ pc = "ready"
        /\ pc' = "done"
        /\ booking' = Booking("search_cars", <<location, limit>>,
                            search_cars(location, limit, store))
        /\ UNCHANGED <<more_calls, executed, processing, retriever, turns, assistant, selection, history, passenger_id, user_info, config, user_input, env, turn, result,
                       store, args_in>>

SearchExcursions ==
    \E location \in Locations, limit \in Limits :
        /\ pc = "ready"
        /\ pc' = "done"
        /\ booking' = Booking("search_excursions", <<location, limit>>,
                            search_excursions(location, limit, store))
        /\ UNCHANGED <<more_calls, executed, processing, retriever, turns, assistant, selection, history, passenger_id, user_info, config, user_input, env, turn, result,
                       store, args_in>>

LookupPolicy ==
    \E query \in Queries, retr \in RetrieverOutcomes :
        /\ pc = "ready"
        /\ pc' = "done"
        /\ env' = Env(retr, BackendFails, BackendFails, BackendFails)
        /\ booking' = Booking("lookup_policy", <<query>>, lookup_policy(query, retr))
        /\ UNCHANGED <<more_calls, executed, processing, retriever, turns, assistant, selection, history, passenger_id, user_info, config, user_input, turn, result,
                       store, args_in>>

SearchWeb ==
    \E query \in Queries, web \in WebOutcomes :
        /\ pc = "ready"
        /\ pc' = "done"
        /\ env' = Env(web, BackendFails, BackendFails, BackendFails)
        /\ booking' = Booking("search_web", <<query>>, search_web(query, web))
        /\ UNCHANGED <<more_calls, executed, processing, retriever, turns, assistant, selection, history, passenger_id, user_info, config, user_input, turn, result,
                       store, args_in>>

\* direct calls of the booking tools
BookHotel ==
    \E hotel_id \in Identifiers, p \in Identifiers :
        /\ pc = "ready"
        /\ pc' = "done"
        /\ booking' = Booking("book_hotel", <<hotel_id, p>>,
                            book_hotel(hotel_id, p))
        /\ UNCHANGED <<more_calls, executed, processing, retriever, turns, assistant, selection, history, passenger_id, user_info, config, user_input, env, turn, result,
                       store, args_in>>

BookCar ==
    \E car_id \in Identifiers, p \in Identifiers :
        /\ pc = "ready"
        /\ pc' = "done"
        /\ booking' = Booking("book_car", <<car_id, p>>,
                            book_car(car_id, p))
        /\ UNCHANGED <<more_calls, executed, processing, retriever, turns, assistant, selection, history, passenger_id, user_info, config, user_input, env, turn, result,
                       store, args_in>>

BookExcursion ==
    \E excursion_id \in Identifiers, p \in Identifiers :
        /\ pc = "ready"
        /\ pc' = "done"
        /\ booking' = Booking("book_excursion", <<excursion_id, p>>,
                            book_excursion(excursion_id, p))
        /\ UNCHANGED <<more_calls, executed, processing, retriever, turns, assistant, selection, history, passenger_id, user_info, config, user_input, env, turn, result,
                       store, args_in>>

UpdateTicket ==
    \E ticket_no \in Identifiers, new_flight_id \in Identifiers, p \in Identifiers :
        /\ pc = "ready"
        /\ pc' = "done"
        /\ booking' = Booking("update_ticket_to_new_flight", <<ticket_no, new_flight_id, p>>,
                            update_ticket_to_new_flight(ticket_no, new_flight_id, p))
        /\ UNCHANGED <<more_calls, executed, processing, retriever, turns, assistant, selection, history, passenger_id, user_info, config, user_input, env, turn, result,
                       store, args_in>>

\* retriever.query(query, k) with a chunk's text or another query, over
\* every answer of the embedding service
QueryRetriever ==
    /\ pc = "ready"
    /\ \E query \in {retriever.docs[i] : i \in 1..Len(retriever.docs)} \cup Queries,
          k \in 1..MaxK, embed \in Embeddings :
           /\ pc' = "done"
           /\ env' = Env(embed, BackendFails, BackendFails, BackendFails)
           /\ booking' = Booking("query", <<query, k>>,
                                 [kind |-> "rows",
                                  text |-> VectorStoreRetriever_results(retriever, embed, k)])
           /\ UNCHANGED <<more_calls, executed, processing, retriever, turns, assistant, selection, history, passenger_id, user_info, config, user_input,
                          turn, result, store, args_in>>

\* the turns a session is followed for
MaxTurns == 6

SessionUtterances == { <<"h", "i">>, <<"H", "o", "t", "e", "l", " ", "P", "a", "r", "i", "s">> }

\* a turn of the chat session: run_graph_v4 is called with the session's
\* history, and what it returns becomes the session's history
SessionTurn ==
    /\ pc = "ready"
    /\ turns < MaxTurns
    /\ \E q \in SessionUtterances :
        \E tool \in ToolOutcomes(Route(Lower(q)), store),
           ollama \in {BackendFails, Completes(<<" ", "L", "X", "1", "2", "3", " ", "a", "t", " ", "9", " ">>)} :
            \E r \in {run_graph_v4(q, passenger_id, user_info, history, config,
                                   Env(tool, ollama, BackendFails, BackendFails))} :
                /\ user_input' = q
                /\ env' = Env(tool, ollama, BackendFails, BackendFails)
                /\ turn' = r.turn_record
                /\ result' = r.returned
                /\ history' = r.returned
                /\ turns' = turns + 1
                /\ UNCHANGED <<more_calls, executed, processing, retriever, assistant, selection, passenger_id, user_info, config,
                               booking, store, args_in, pc>>

\* the conversations a specialist is called on
SpecialistMessages ==
    { <<>>,
      <<Message("user", <<"c", "a", "r", " ", "P", "a", "r", "i", "s">>)>>,
      <<Message("user", <<"h", "i">>), Message("assistant", <<"w", "e", " ", "a", "p", "o", "l", "o", "g", "i", "z", "e">>),
        Message("user", <<"H", "o", "t", "e", "l", " ", "P", "a", "r", "i", "s">>)>> }

\* the answers of the selection backend: a failure, no tool call, and a
\* call of an offered tool or of another one, with arguments json.loads
\* rejects or with an args dict
Selections(a) ==
    {SelectionFails, NoToolCall}
    \cup {MalformedCall(name) : name \in OfferedTools(a)}
    \cup UNION {{ToolCall(name, args) : args \in ArgDicts(name)} :
                name \in OfferedTools(a) \cup {"book_car"}}

\* the tool calls that follow the first in the backend's answer: none, or
\* the same call once more
MoreCalls(sel) == IF sel.called THEN {<<>>, <<sel>>} ELSE {<<>>}

\* flight_assistant or hotel_assistant called on state["messages"] = history
CallSpecialist ==
    /\ pc = "ready"
    /\ \E a \in Assistants, ollama \in {BackendFails, Completes(<<" ", "L", "X", "1", "2", "3", " ", "a", "t", " ", "9", " ">>)} :
        \E sel \in Selections(a) :
            \E more \in MoreCalls(sel), outcome \in DispatchOutcomes(sel.name, store) :
                LET r == specialist(a, history, passenger_id, sel, outcome, ollama)
                IN  /\ pc' = "done"
                    /\ assistant' = a
                    /\ selection' = sel
                    /\ more_calls' = more
                    /\ executed' = ExecutedCalls(a, passenger_id, sel, more, outcome)
                    /\ env' = Env(outcome, ollama, BackendFails, BackendFails)
                    /\ turn' = r
                    /\ result' = r.messages
                    /\ booking' = SpecialistCall(a, passenger_id, sel, outcome)
                    /\ UNCHANGED <<processing, retriever, turns, history, passenger_id, user_info, config,
                                   user_input, store, args_in>>

\* car_rental_assistant called on state["messages"] = history
CallCarRental ==
    /\ pc = "ready"
    /\ LET messages == Enhanced(history)
           q == IF messages = <<>> THEN <<>> ELSE messages[Len(messages)].content
       IN  \E tool \in ToolOutcomes(Route(Lower(q)), store),
              ollama \in {BackendFails, Completes(<<" ", "L", "X", "1", "2", "3", " ", "a", "t", " ", "9", " ">>)} :
               LET e == Env(tool, ollama, BackendFails, BackendFails)
                   r == car_rental_assistant(history, passenger_id, user_info, config, e)
               IN  /\ pc' = "done"
                   /\ assistant' = "car_rental_assistant"
                   /\ env' = e
                   /\ turn' = r
                   /\ result' = r.messages
                   /\ UNCHANGED <<more_calls, executed, processing, retriever, turns, selection, history, passenger_id, user_info,
                                  config, user_input, booking, store, args_in>>

\* the messages submitted to the chat front end
MaxSubmits == 4

\* a reset written in the exception handler instead
AfterTurnResetInHandler(failed) == ~failed

\* app.py 145-146: st.session_state.processing after the try statement;
\* the finally clause runs whichever way the try block was left
AfterTurn(failed) == FALSE

\* app.py 113-120: a message comes from st.chat_input; it starts a turn
\* when it is not empty and the flag is not set; the flag is set and the
\* user message appended to the session's history
Submit ==
    /\ pc = "ready"
    /\ turns < MaxSubmits
    /\ \E q \in SessionUtterances \cup {<<>>} :
        /\ q # <<>> /\ ~processing
        /\ processing' = TRUE
        /\ history' = Append(history, Message("user", q))
        /\ user_input' = q
        /\ pc' = "running"
        /\ UNCHANGED <<more_calls, executed, retriever, turns, assistant, selection,
                       passenger_id, user_info, config, env, turn, result, booking, store,
                       args_in>>

\* app.py 123-135: run_graph_v4 is called on the history without the
\* message just appended, what it returns becomes the session's history,
\* and st.rerun() leaves the try block
RunTurn ==
    /\ pc = "running"
    /\ \E tool \in ToolOutcomes(Route(Lower(user_input)), store),
          ollama \in {BackendFails, Completes(<<" ", "L", "X", "1", "2", "3", " ", "a", "t", " ", "9", " ">>)} :
        \E r \in {run_graph_v4(user_input, passenger_id, user_info,
                               SubSeq(history, 1, Len(history) - 1), config,
                               Env(tool, ollama, BackendFails, BackendFails))} :
            /\ env' = Env(tool, ollama, BackendFails, BackendFails)
            /\ turn' = r.turn_record
            /\ result' = r.returned
            /\ history' = r.returned
            /\ pc' = "rerun"
            /\ UNCHANGED <<more_calls, executed, processing, retriever, turns, assistant,
                           selection, passenger_id, user_info, config, user_input, booking,
                           store, args_in>>

\* app.py 137-143: a statement of the try block raises an Exception; the
\* handler appends its apology to the session's history
FailTurn ==
    /\ pc = "running"
    /\ history' = Append(history,
                         Message("assistant",
                                 <<"I", " ">> \o <<"a", "p", "o", "l", "o", "g", "i", "z", "e">>
                                 \o <<", but I encountered an error. Please try again.">>))
    /\ pc' = "failed"
    /\ UNCHANGED <<more_calls, executed, processing, retriever, turns, assistant, selection,
                   passenger_id, user_info, config, user_input, env, turn, result, booking,
                   store, args_in>>

\* app.py 145-146: the finally clause, after st.rerun() and after the
\* handler; the script run ends and the next message can come
Finish ==
    /\ pc \in {"rerun", "failed"}
    /\ processing' = AfterTurn(pc = "failed")
    /\ turns' = turns + 1
    /\ pc' = "ready"
    /\ UNCHANGED <<more_calls, executed, retriever, assistant, selection, history,
                   passenger_id, user_info, config, user_input, env, turn, result, booking,
                   store, args_in>>

(* --------------------------- specifications --------------------------- *)

NoEnv == Env("none", BackendFails, BackendFails, BackendFails)

Idle ==
    /\ user_input = <<>>
    /\ env = NoEnv
    /\ turn = NoTurn
    /\ result = <<>>
    /\ booking = NoBooking
    /\ args_in = <<>>
    /\ turns = 0
    /\ assistant = "none"
    /\ selection = NoToolCall
    /\ more_calls = <<>>
    /\ executed = <<>>
    /\ processing = FALSE
    /\ pc = "ready"

\* the turn under every configuration and every backend outcome
Init ==
    /\ retriever = NoRetriever
    /\ history \in SeqsUpTo(HistoryMessages, MaxHistory)
    /\ passenger_id \in PassengerIds
    /\ user_info = <<>>
    /\ config \in Configs
    /\ store \in StoreOutcomes
    /\ Idle

Next == ProcessTurn

Spec == Init /\ [][Next]_vars

\* the routing step under every utterance; it is over before the first
\* backend is called
InitRouting ==
    /\ retriever = NoRetriever
    /\ history = <<>>
    /\ passenger_id \in PassengerIds
    /\ user_info = <<>>
    /\ config = Config(FALSE, FALSE)
    /\ store \in StoreOutcomes
    /\ Idle

NextRouting == RouteTurn \/ ScenarioTurn

SpecRouting == InitRouting /\ [][NextRouting]_vars

\* agent called directly, also on the empty conversation
InitAgent ==
    /\ retriever = NoRetriever
    /\ history \in SeqsUpTo(AgentMessages, MaxHistory)
    /\ passenger_id \in PassengerIds
    /\ user_info = <<>>
    /\ config \in Configs
    /\ store \in StoreOutcomes
    /\ Idle

NextAgent == CallAgent

SpecAgent == InitAgent /\ [][NextAgent]_vars

\* the dispatcher, for every tool name and every args dict
InitDispatch ==
    /\ retriever = NoRetriever
    /\ history = <<>>
    /\ passenger_id \in PassengerIds
    /\ user_info = <<>>
    /\ config = Config(FALSE, FALSE)
    /\ store \in StoreOutcomes
    /\ Idle

NextDispatch == ExecuteTool

SpecDispatch == InitDispatch /\ [][NextDispatch]_vars

\* the search tools, lookup_policy and search_web called directly
InitTools ==
    /\ retriever = NoRetriever
    /\ history = <<>>
    /\ passenger_id = <<>>
    /\ user_info = <<>>
    /\ config = Config(FALSE, FALSE)
    /\ store \in Stores
    /\ Idle

NextTools ==
    \/ SearchFlights
    \/ SearchHotels
    \/ SearchCars
    \/ SearchExcursions
    \/ LookupPolicy
    \/ SearchWeb

SpecTools == InitTools /\ [][NextTools]_vars

\* run_graph_v4 on histories longer than the window
InitWorkflow ==
    /\ retriever = NoRetriever
    /\ history \in SeqsUpTo(WorkflowMessages, MaxWorkflowHistory)
    /\ passenger_id = <<>>
    /\ user_info = <<>>
    /\ config = Config(FALSE, FALSE)
    /\ store = Store(TRUE, 0)
    /\ Idle

NextWorkflow == WorkflowTurn

SpecWorkflow == InitWorkflow /\ [][NextWorkflow]_vars

\* the booking tools called directly
InitBooking ==
    /\ retriever = NoRetriever
    /\ history = <<>>
    /\ passenger_id = <<>>
    /\ user_info = <<>>
    /\ config = Config(FALSE, FALSE)
    /\ store = Store(TRUE, 0)
    /\ Idle

NextBooking == BookHotel \/ BookCar \/ BookExcursion \/ UpdateTicket

SpecBooking == InitBooking /\ [][NextBooking]_vars

\* the retriever queried directly, for every corpus and stored vectors
InitRetriever ==
    /\ retriever \in Retrievers
    /\ history = <<>>
    /\ passenger_id = <<>>
    /\ user_info = <<>>
    /\ config = Config(FALSE, FALSE)
    /\ store = Store(TRUE, 0)
    /\ Idle

NextRetriever == QueryRetriever

SpecRetriever == InitRetriever /\ [][NextRetriever]_vars

\* a chat session that starts with an empty history
InitSession ==
    /\ retriever = NoRetriever
    /\ history = <<>>
    /\ passenger_id \in PassengerIds
    /\ user_info = <<>>
    /\ config = Config(FALSE, FALSE)
    /\ store = Store(TRUE, 0)
    /\ Idle

NextSession == SessionTurn

SpecSession == InitSession /\ [][NextSession]_vars

\* the specialists called directly
InitSpecialists ==
    /\ retriever = NoRetriever
    /\ history \in SpecialistMessages
    /\ passenger_id \in PassengerIds
    /\ user_info = <<>>
    /\ config = Config(FALSE, FALSE)
    /\ store \in StoreOutcomes
    /\ Idle

NextSpecialists == CallSpecialist \/ CallCarRental

SpecSpecialists == InitSpecialists /\ [][NextSpecialists]_vars

\* the chat front end: a session that starts as app.py 85-88 leave it
InitFrontend ==
    /\ retriever = NoRetriever
    /\ history = <<>>
    /\ passenger_id \in PassengerIds
    /\ user_info = <<>>
    /\ config = Config(FALSE, FALSE)
    /\ store = Store(TRUE, 0)
    /\ Idle

NextFrontend == Submit \/ RunTurn \/ FailTurn \/ Finish

SpecFrontend == InitFrontend /\ [][NextFrontend]_vars

(* ------------------------------ claims -------------------------------- *)

Min(a, b) == IF a <= b THEN a ELSE b
Last(s) == s[Len(s)]

\* the messages the turn dropped from the front of the history
Dropped == IF Len(history) + 2 > MaxMessages THEN Len(history) + 2 - MaxMessages ELSE 0

\* C1: for an input history of length L and every outcome of the agent,
\* run_graph_v4 returns min(L+2, 10) messages; the messages of the history
\* that it keeps are all of them when L+2 <= 10, and otherwise all but the
\* oldest L+2-10, in their order.
C1_TrimLength ==
    pc = "done" =>
        /\ Len(result) = Min(Len(history) + 2, MaxMessages)
        /\ \A i \in 1..(Len(result) - 2) : result[i] = history[i + Dropped]
        /\ Len(history) - Dropped = Len(result) - 2

\* a history of more than 8 messages whose oldest messages differ was trimmed
C1_Witness ==
    /\ pc = "done"
    /\ Len(history) = 10
    /\ history[1] # history[3]
    /\ Len(result) = MaxMessages
    /\ result[1] = history[3]

\* C2: whether the agent returns or raises, the list returned is the last-10
\* suffix of the history, then one user message holding user_input, then
\* exactly one assistant message, which is the last message.
C2_TurnShape ==
    pc = "done" =>
        /\ Len(result) >= 2
        /\ Last(result).role = "assistant"
        /\ result[Len(result) - 1] = Message("user", user_input)
        /\ LET full == history \o <<Message("user", user_input), Last(result)>>
               drop == Len(full) - Len(result)
           IN  /\ drop >= 0
               /\ drop > 0 => Len(result) = MaxMessages
               /\ drop = 0 \/ Len(full) > MaxMessages
               /\ \A i \in 1..Len(result) : result[i] = full[i + drop]

\* the agent raised on a history it could not serialise, and the turn still
\* ends with the user message and one apology
C2_Witness ==
    /\ pc = "done"
    /\ turn.raised
    /\ Len(history) >= 9
    /\ Last(result) = Message("assistant", WorkflowApology)
    /\ result[Len(result) - 1] = Message("user", user_input)

FallbackRan == \E i \in 1..Len(turn.trace) : turn.trace[i] = "fallback"
RefineRan == \E i \in 1..Len(turn.trace) : turn.trace[i] = "refine"
Appended == pc = "done" /\ ~turn.raised

\* C3: when the primary backend raises, the assistant message holds the
\* secondary backend's completion if its call succeeds, and the fixed
\* apology if the secondary backend is unavailable or its call fails.
C3_FallbackOrApology ==
    (Appended /\ ~env.ollama.ok) =>
        /\ FallbackRan
        /\ Last(turn.messages).role = "assistant"
        /\ IF config.client /\ env.fallback.ok
           THEN turn.answer \in {Strip(env.fallback.text), Strip(env.rewrite.text)}
           ELSE turn.answer = GenerationApology

\* C4: the assistant message that agent appends has a non-empty content.
C4_ContentNonEmpty ==
    Appended => Last(turn.messages).content # <<>>

\* C5: in the refinement pass the rewritten text replaces the answer only
\* when it is non-empty and unmarked, and when the secondary backend is
\* unavailable or its call fails the unrefined answer is appended.
C5_RefinementKeepsAnswer ==
    (Appended /\ RefineRan) =>
        /\ turn.answer # turn.generated =>
              /\ config.client /\ env.rewrite.ok
              /\ turn.answer = Strip(env.rewrite.text)
              /\ turn.answer # <<>>
              /\ ~StartsWith(turn.answer, GeminiMarker)
        /\ (~config.client \/ ~env.rewrite.ok) => turn.answer = turn.generated

SomeArgEmpty == \E i \in 1..Len(booking.args) : booking.args[i] = <<>>

\* C6: a booking tool called with an empty passenger_id or an empty
\* identifier raises and returns no confirmation; it returns a confirmation
\* only when every required argument is non-empty.
C6_BookingValidation ==
    booking.tool # "none" =>
        /\ SomeArgEmpty => booking.result.kind = "raise"
        /\ booking.result.kind # "raise" =>
              /\ booking.result.kind = "text"
              /\ ~SomeArgEmpty

\* a ticket update with a ticket number and a passenger but no new flight
C6_Witness ==
    /\ booking.tool = "update_ticket_to_new_flight"
    /\ booking.args[1] # <<>>
    /\ booking.args[2] = <<>>
    /\ booking.args[3] # <<>>
    /\ booking.result.kind = "raise"

\* the result keys of the chain in the order of its branches, each with the
\* keywords of its branch
ChainKeys == <<"flights", "hotels", "cars", "policy", "excursions", "web_search">>
ChainWords ==
    <<flight_words, hotel_words, car_words, policy_words, excursion_words, live_words>>
Matches(k, text) ==
    \E w \in 1..Len(ChainWords[k]) : Contains(Lower(text), ChainWords[k][w])
Fired == {k \in 1..Len(ChainKeys) : ChainKeys[k] \in DOMAIN turn.tool_results}

\* C7: the chain fires at most one domain tool, and it is the first, in the
\* order flight, hotel, car, policy, excursion, live status, whose keywords
\* occur in the lower-cased utterance; an utterance with a flight keyword
\* and a hotel keyword fires the flight search alone.
C7_FirstMatchRouting ==
    pc = "done" =>
        /\ Cardinality(Fired) <= 1
        /\ \A k \in 1..Len(ChainKeys) :
              k \in Fired <=>
                  (Matches(k, user_input) /\ \A m \in 1..(k - 1) : ~Matches(m, user_input))

\* an utterance with a hotel keyword and a flight keyword, in this order
C7_Witness ==
    /\ pc = "done"
    /\ Matches(1, user_input)
    /\ Matches(2, user_input)
    /\ StartsWith(Lower(user_input), hotel_words[1])
    /\ Fired = {1}

AirportHits == {k \in 1..Len(airports) : Contains(Lower(user_input), airports[k])}
CityHits == {k \in 1..Len(cities) : Contains(Lower(user_input), cities[k])}
Least(S) == CHOOSE k \in S : \A m \in S : k <= m

\* C8 as stated: a matching airport code is the location, also when a city
\* name matches too, and a city is the location only when no airport code
\* matches.
C8_AirportFirst ==
    pc = "done" =>
        /\ AirportHits # {} => turn.location = Upper(airports[Least(AirportHits)])
        /\ (\E k \in 1..Len(cities) : turn.location = Title(cities[k])) =>
              AirportHits = {}

\* C8, amended: a matching city name is the location (the first in list
\* order, title-cased), also when an airport code matches too; an airport
\* code (the first in list order, upper-cased) is the location only when no
\* city name matches.
C8_CityOverridesAirport ==
    pc = "done" =>
        /\ CityHits # {} => turn.location = Title(cities[Least(CityHits)])
        /\ (CityHits = {} /\ AirportHits # {}) =>
              turn.location = Upper(airports[Least(AirportHits)])

\* an utterance naming the airport JFK and the city Paris
C8_Witness ==
    /\ pc = "done"
    /\ Contains(Lower(user_input), airports[2])
    /\ Contains(Lower(user_input), cities[4])
    /\ turn.location = Title(cities[4])

\* C9: the location is never empty, and it is the default "Zurich" whenever
\* the utterance holds no known airport code and no known city name.
C9_LocationDefault ==
    pc = "done" =>
        /\ turn.location # <<>>
        /\ (AirportHits = {} /\ CityHits = {}) => turn.location = DefaultLocation

\* an utterance that routes nowhere and names no place
C9_Witness ==
    /\ pc = "done"
    /\ AirportHits = {}
    /\ CityHits = {}
    /\ Fired = {}
    /\ turn.location = DefaultLocation

C12_AgentReturns ==
    pc = "done" =>
        /\ turn.ran
        /\ ~turn.raised
        /\ Last(turn.trace) = "append"
        /\ turn.messages = Append(Append(history, Message("user", user_input)),
                                  Message("assistant", turn.answer))

\* the store was unreachable, the primary backend failed, the secondary
\* backend was configured and failed as well, and the turn was appended
C12_Witness ==
    /\ pc = "done"
    /\ turn.routed = "hotels"
    /\ ~store.reachable
    /\ ~env.ollama.ok
    /\ config.client
    /\ ~env.fallback.ok
    /\ Last(turn.trace) = "append"
    /\ Len(turn.messages) = Len(history) + 2

\* C13: called on a conversation without messages, agent raises before it
\* routes, calls a tool or a backend, or appends: nothing was computed and
\* state["messages"] is still empty.
C13_EmptyStateRefused ==
    (pc = "done" /\ history = <<>>) =>
        /\ turn.raised
        /\ turn.trace = <<>>
        /\ turn.routed = "none"
        /\ turn.tool_results = NoResults
        /\ turn.prompt = <<>>
        /\ turn.generated = <<>>
        /\ turn.messages = <<>>
        /\ result = history

\* agent was called on the empty conversation and raised
C13_Witness ==
    /\ pc = "done"
    /\ history = <<>>
    /\ turn.ran
    /\ turn.raised
    /\ result = <<>>

\* C14: a call of agent that returns leaves the messages it was given, each
\* at its position with its role and content, followed by exactly one
\* assistant message; passenger_id and user_info are as they were.
C14_OnlyAppends ==
    [][(pc' = "done" /\ ~turn'.raised) =>
          /\ Len(turn'.messages) = Len(history) + 1
          /\ SubSeq(turn'.messages, 1, Len(history)) = history
          /\ Last(turn'.messages).role = "assistant"
          /\ result' = turn'.messages
          /\ history' = history
          /\ passenger_id' = passenger_id
          /\ user_info' = user_info]_vars

\* agent returned on a conversation of one message
C14_Witness ==
    /\ pc = "done"
    /\ ~turn.raised
    /\ Len(history) = 1
    /\ Len(result) = 2
    /\ result[1] = history[1]
    /\ result[2].role = "assistant"

\* the caller gave no passenger_id, or an empty one
NoPassengerGiven == Get(args_in, "passenger_id") = <<>>
\* the dispatcher's result is the string it makes of a failed call
Failed == StartsWith(booking.result.text, <<"Tool execution failed: ">>)
\* the args of the call, the passenger_id apart, are the caller's
OtherArgsKept ==
    /\ DOMAIN booking.args \ {"passenger_id"} = DOMAIN args_in \ {"passenger_id"}
    /\ \A k \in DOMAIN args_in \ {"passenger_id"} : booking.args[k] = args_in[k]

\* C15: _execute_tool writes the session passenger_id into the args of a
\* booking tool that came without one, and the tool runs with it; it leaves
\* a passenger_id the caller gave, and the args of every other tool, as they
\* are; a booking tool that gets a passenger_id from neither fails and
\* confirms nothing.
C15_PassengerInjection ==
    pc = "done" =>
        /\ OtherArgsKept
        /\ (booking.tool \in booking_tools /\ NoPassengerGiven /\ passenger_id # <<>>) =>
              /\ "passenger_id" \in DOMAIN booking.args
              /\ booking.args["passenger_id"] = passenger_id
              /\ ~Contains(booking.result.text, <<"No passenger ID provided. Authorization required.">>)
              /\ (\A k \in Required(booking.tool) : Get(booking.args, k) # <<>>) =>
                    /\ ~Failed
                    /\ booking.result = CallTool(booking.tool, booking.args, env.tool)
        /\ ~NoPassengerGiven => booking.args = args_in
        /\ booking.tool \notin booking_tools => booking.args = args_in
        /\ (booking.tool \in booking_tools /\ NoPassengerGiven /\ passenger_id = <<>>) =>
              /\ booking.args = args_in
              /\ Failed

\* a hotel booking came without passenger_id, the session had one, and the
\* confirmation is for the session's passenger
C15_Witness ==
    /\ pc = "done"
    /\ booking.tool = "book_hotel"
    /\ DOMAIN args_in = {"hotel_id"}
    /\ args_in["hotel_id"] # <<>>
    /\ passenger_id # <<>>
    /\ booking.args["passenger_id"] = passenger_id
    /\ booking.result.kind = "text"
    /\ Contains(booking.result.text, <<" successfully booked for passenger ">> \o passenger_id)

\* C16: a booking or ticket-update tool called through _execute_tool with
\* an empty identifier or an empty passenger_id ends, for the dispatcher's
\* caller, in a raised error and not in a returned value.
C16_ValidationRaised ==
    ( /\ pc = "done"
      /\ booking.tool \in booking_tools
      /\ DOMAIN booking.args = Required(booking.tool)
      /\ \E k \in DOMAIN booking.args : booking.args[k] = <<>> )
    => booking.result.kind = "raise"

\* C17: lookup_policy never raises.  With a retriever that was never built
\* it returns the fixed unavailable message; when the embedding call fails
\* the retriever returns an empty list and lookup_policy the fixed
\* no-relevant-information message; otherwise it returns the chunks found,
\* joined by the separator.
C17_PolicyLookupTotal ==
    (pc = "done" /\ booking.tool = "lookup_policy") =>
        /\ booking.result.kind = "text"
        /\ env.tool = "unavailable" =>
              booking.result.text
                  = <<"Policy lookup is currently unavailable. Please try again later.">>
        /\ env.tool = "nodocs" =>
              /\ VectorStoreRetriever_query(booking.args[1], 2, env.tool) = <<>>
              /\ booking.result.text
                    = <<"No relevant policy information found. Please contact customer service.">>
        /\ env.tool = "docs" =>
              booking.result.text = <<"<chunk>", "\n\n---\n\n", "<chunk>">>

\* a lookup with a retriever that was never built
C17_Witness ==
    /\ pc = "done"
    /\ booking.tool = "lookup_policy"
    /\ env.tool = "unavailable"
    /\ booking.result.kind = "text"
    /\ booking.result.text # <<>>

SearchTools == {"search_flights", "search_hotels", "search_cars", "search_excursions"}
\* how the no-results strings of the four search tools begin
NoResultsOpenings ==
    {"No flights found for your criteria. Try broader search or different airports.",
     "No hotels found in ", "No rental cars available in ", "No excursions available in "}

C19_ConfirmationNames ==
    (pc = "done" /\ booking.tool \in booking_tools /\ booking.result.kind = "text") =>
        \A i \in 1..Len(booking.args) : Contains(booking.result.text, booking.args[i])

\* C20: without a configured client search_web returns the fixed mock
\* string for every query and reports no error; when the client's search
\* fails it returns a descriptive string and does not raise.
C20_WebSearchDegrades ==
    (pc = "done" /\ booking.tool = "search_web") =>
        /\ booking.result.kind = "text"
        /\ env.tool = "mock" =>
              /\ StartsWith(booking.result.text, <<"Mock search result: No significant flight delays reported for Swiss Airlines today. (Configure TAVILY_API_KEY in .env for live web search capability.)">>)
              /\ Len(booking.result.text) = 1
        /\ env.tool = "error" =>
              StartsWith(booking.result.text, <<"Web search temporarily unavailable. Error: ">>)

\* the configured client failed and a string came back
C20_Witness ==
    /\ pc = "done"
    /\ booking.tool = "search_web"
    /\ env.tool = "error"
    /\ booking.result.kind = "text"
    /\ Len(booking.result.text) = 2

\* C21: for the input "Show me flights from Zurich" with an empty
\* passenger id and an empty history, the routing step fires the flight
\* search with the location "Zurich", the tool-result map has the key
\* flights and no key user_info, and run_graph_v4 returns 2 messages.
C21_ZurichScenario ==
    (pc = "done" /\ user_input = ScenarioUtterance /\ passenger_id = <<>> /\ history = <<>>) =>
        /\ turn.routed = "flights"
        /\ turn.location = <<"Z", "u", "r", "i", "c", "h">>
        /\ "flights" \in DOMAIN turn.tool_results
        /\ "user_info" \notin DOMAIN turn.tool_results
        /\ Len(result) = 2

\* the scenario ran against a store with flights, and the search returned rows
C21_Witness ==
    /\ pc = "done"
    /\ user_input = ScenarioUtterance
    /\ passenger_id = <<>>
    /\ history = <<>>
    /\ turn.tool_results["flights"].kind = "rows"
    /\ Len(result) = 2
    /\ result[2].role = "assistant"

\* the chunk whose literal text the query was, if it was one
IsChunk(i) == i \in 1..Len(retriever.docs) /\ booking.args[1] = retriever.docs[i]
Returned(i) ==
    \E j \in 1..Len(booking.result.text) :
        booking.result.text[j].page_content = retriever.docs[i]
Queried == pc = "done" /\ booking.tool = "query"

Times(step) == Cardinality({i \in 1..Len(turn.trace) : turn.trace[i] = step})

\* C23: within one turn of agent the steps occur in the order route,
\* aggregate, primary generate, optional fallback generate, optional refine,
\* append; the primary backend is called exactly once, and the secondary
\* backend is called for generation exactly when the primary call failed:
\* when the primary call returned, the generated answer is its completion.
C23_StepOrder ==
    Appended =>
        /\ \E f \in BOOLEAN, r \in BOOLEAN :
               turn.trace = <<"route", "aggregate", "primary">>
                            \o (IF f THEN <<"fallback">> ELSE <<>>)
                            \o (IF r THEN <<"refine">> ELSE <<>>)
                            \o <<"append">>
        /\ Times("primary") = 1
        /\ FallbackRan <=> ~env.ollama.ok
        /\ env.ollama.ok => turn.generated = Strip(env.ollama.text)
        /\ ~env.ollama.ok =>
               turn.generated = refine_with_gemini(turn.prompt, config.client, env.fallback)

\* a turn that took every step: the primary call failed, the secondary
\* backend answered, and its answer was rewritten
C23_Witness ==
    /\ Appended
    /\ turn.trace = <<"route", "aggregate", "primary", "fallback", "refine", "append">>
    /\ ~env.ollama.ok
    /\ env.fallback.ok
    /\ env.rewrite.ok
    /\ turn.answer # turn.generated

\* user and assistant messages alternate, a user message first
Alternates(h) ==
    \A i \in 1..Len(h) : h[i].role = (IF i % 2 = 1 THEN "user" ELSE "assistant")

\* C24: starting from an empty history and feeding each result of
\* run_graph_v4 back as the history of the next call, after every turn the
\* history has even length at most 10 and alternates user, assistant from a
\* user message on; a turn drops nothing or, when the list would exceed 10,
\* exactly the oldest user message and its reply.
C24_SessionShape ==
    [][LET full == history \o <<Message("user", user_input'), Last(history')>>
           drop == Len(full) - Len(history')
       IN  /\ Len(history') % 2 = 0
           /\ Len(history') <= MaxMessages
           /\ Len(history') >= 2
           /\ Alternates(history')
           /\ drop \in {0, 2}
           /\ drop = 2 <=> Len(full) > MaxMessages
           /\ \A i \in 1..Len(history') : history'[i] = full[i + drop]]_vars

\* a session after its sixth turn: the history is full, its oldest turn is
\* gone, and it holds a reply of a failed and of a successful generation
C24_Witness ==
    /\ turns = MaxTurns
    /\ Len(history) = MaxMessages
    /\ \E i, j \in 1..Len(history) :
           /\ history[i] = Message("assistant", <<"L", "X", "1", "2", "3", " ", "a", "t", " ", "9">>)
           /\ history[j].role = "assistant"
           /\ history[j].content # <<>>
           /\ history[j].content[1] = "You are a helpful Swiss Airlines virtual assistant.\n\nCurrent UTC time: "
    /\ history[1] = Message("user", <<"H", "o", "t", "e", "l", " ", "P", "a", "r", "i", "s">>)
    /\ user_input = <<"h", "i">>

\* the generated answer holds "apologize" in some case of letters
LooksLikeApology(answer) == Contains(Lower(answer), <<"a", "p", "o", "l", "o", "g", "i", "z", "e">>)

\* C25: the refinement pass is attempted exactly when the refinement flag
\* is enabled and the generated answer is non-empty and does not look like
\* an apology; when the flag is disabled, or the answer is the fixed
\* apology, or the pass is not attempted for another reason, the appended
\* answer is exactly the answer of the generation step.
C25_RefinementGate ==
    Appended =>
        /\ RefineRan <=> (/\ config.use_refinement
                          /\ turn.generated # <<>>
                          /\ ~LooksLikeApology(turn.generated))
        /\ (~config.use_refinement \/ turn.generated = GenerationApology) => ~RefineRan
        /\ ~RefineRan =>
               /\ turn.answer = turn.generated
               /\ Last(turn.messages) = Message("assistant", turn.generated)

\* the flag is enabled and the secondary backend would have rewritten the
\* answer, but the answer apologizes and is appended as generated
C25_Witness ==
    /\ Appended
    /\ config.use_refinement
    /\ config.client
    /\ env.rewrite.ok
    /\ env.rewrite.text # <<>>
    /\ turn.generated = <<"I", " ", "A", "p", "o", "l", "o", "g", "i", "z", "e">>
    /\ ~RefineRan
    /\ Last(result) = Message("assistant", <<"I", " ", "A", "p", "o", "l", "o", "g", "i", "z", "e">>)

\* flight_assistant or hotel_assistant was called
SpecialistRan == pc = "done" /\ assistant \in Assistants

InTrace(step) == \E i \in 1..Len(turn.trace) : turn.trace[i] = step

\* C26: in flight_assistant and hotel_assistant a failure of the
\* tool-selection backend short-circuits the specialist: the fixed apology
\* is appended as the one assistant message, no tool is executed and the
\* generation backend is not called.
C26_SelectionFailure ==
    (SpecialistRan /\ ~selection.ok) =>
        /\ ~turn.raised
        /\ result = Append(history, Message("assistant",
               IF assistant = "flight_assistant"
               THEN <<"I'm having trouble accessing flight information right now. Please try again.">>
               ELSE <<"I'm having trouble accessing hotel information. Please try again.">>))
        /\ booking = NoBooking
        /\ ~InTrace("execute")
        /\ ~InTrace("generate")
        /\ turn.prompt = <<>>

\* the selection backend failed the hotel assistant on a conversation of
\* three messages, and a fourth was appended
C26_Witness ==
    /\ SpecialistRan
    /\ assistant = "hotel_assistant"
    /\ ~selection.ok
    /\ Len(history) = 3
    /\ Len(result) = 4
    /\ result[4].role = "assistant"

\* a tool call was selected and did not come to a result: its arguments
\* were rejected, or the tool raised
ExecutionFailed ==
    /\ selection.ok
    /\ selection.called
    /\ ~selection.valid \/ booking.result.kind = "raise"

\* C27: in flight_assistant and hotel_assistant any failure while executing
\* the selected tool call (malformed arguments, a missing required argument,
\* a validation error of a booking tool, a tool error) is caught, its error
\* text becomes the tool result, and the generation stage still runs and
\* appends an assistant message; no such failure escapes the specialist.
C27_ExecutionFailureCaught ==
    (SpecialistRan /\ ExecutionFailed) =>
        /\ ~turn.raised
        /\ StartsWith(turn.tool_results, <<"E", "r", "r", "o", "r">>)
        /\ InTrace("generate")
        /\ Len(result) = Len(history) + 1
        /\ Last(result).role = "assistant"

\* the reply of a failed generation, as the source spells it
FormattingReply(raw) ==
    IF assistant = "flight_assistant"
    THEN <<"I found flight information but had trouble formatting it. Raw data: ">> \o raw
    ELSE <<"Hotel information: ">> \o raw

\* C28: in flight_assistant and hotel_assistant, when the generation backend
\* of stage 3 fails, the assistant message appended is built from the raw
\* tool result truncated to its first 200 characters; exactly one assistant
\* message is appended and nothing is raised.
C28_RawDataReply ==
    (SpecialistRan /\ selection.ok /\ ~turn.raised /\ ~env.ollama.ok) =>
        /\ Len(result) = Len(history) + 1
        /\ SubSeq(result, 1, Len(history)) = history
        /\ Last(result) =
               Message("assistant",
                       FormattingReply(SubSeq(turn.tool_results, 1,
                                              Min(200, Len(turn.tool_results)))))

\* a search returned rows whose dump is longer than 200 characters, the
\* generation failed, and the reply holds the first 200 of them
C28_Witness ==
    /\ SpecialistRan
    /\ ~turn.raised
    /\ ~env.ollama.ok
    /\ booking.result.kind = "rows"
    /\ Len(turn.tool_results) > 200
    /\ Len(Last(result).content) = 201
    /\ Last(result).content[2] = "["

\* the selected call is one of a booking tool
BookingSelected ==
    /\ selection.ok
    /\ selection.called
    /\ selection.valid
    /\ selection.name \in booking_tools \cap OfferedTools(assistant)

\* every argument but passenger_id is given and non-empty
OtherArgsGiven ==
    \A k \in Required(selection.name) \ {"passenger_id"} :
        k \in DOMAIN selection.args /\ selection.args[k] # <<>>

\* C29: in the execution stage of flight_assistant and hotel_assistant,
\* when the selected booking tool call omits passenger_id or gives it empty
\* and the session has a non-empty passenger_id, the session passenger_id is
\* injected and the booking tool runs with it and returns a confirmation;
\* when the session has none, the booking fails and no confirmation is
\* produced.
C29_SpecialistInjection ==
    (SpecialistRan /\ BookingSelected /\ OtherArgsGiven
        /\ DOMAIN selection.args \subseteq Required(selection.name)
        /\ Get(selection.args, "passenger_id") = <<>>) =>
        IF passenger_id # <<>>
        THEN /\ Get(booking.args, "passenger_id") = passenger_id
             /\ booking.result.kind = "text"
        ELSE booking.result.kind = "raise"

\* C30: every specialist treats the conversation as append-only within a
\* turn: on each path that returns, every message present before the call
\* keeps its position, role and content, and exactly one assistant message
\* is appended.
C30_SpecialistsAppendOnly ==
    (pc = "done" /\ assistant # "none" /\ ~turn.raised) =>
        /\ Len(result) = Len(history) + 1
        /\ SubSeq(result, 1, Len(history)) = history
        /\ Last(result).role = "assistant"

\* the messages of the history that the prompt of the turn must hold
Window == SubSeq(history, Len(history) - Min(6, Len(history)) + 1, Len(history))

\* C31: of an n-message conversation the prompt holds exactly the last
\* min(6, n-1) messages that precede the latest one, in their order; the
\* latest message is the user query and is not in the window, and no older
\* message is.
C31_PromptWindow ==
    (pc = "done" /\ turn.ran) =>
        /\ turn.user_query = user_input
        /\ turn.recent_history = Window
        /\ ~turn.raised =>
               turn.prompt = BuildPrompt(Window, user_input, turn.tool_results, user_info)

\* a history of ten messages whose fourth cannot be serialised: the prompt
\* was built, from the last six
C31_Witness ==
    /\ pc = "done"
    /\ ~turn.raised
    /\ Len(history) = 10
    /\ history[4].content = NotSerializable
    /\ Len(turn.recent_history) = 6
    /\ turn.recent_history[1] = history[5]
    /\ turn.prompt # <<>>

\* C32: flight_assistant and hotel_assistant execute at most one domain
\* tool per invocation, also when the selection backend returns several
\* tool calls; when it returns none, no tool is executed and the fixed
\* placeholder is the tool result the generation stage is given.
C32_OneToolPerCall ==
    (pc = "done" /\ assistant \in Assistants) =>
        /\ Len(executed) <= 1
        /\ (selection.ok /\ ~selection.called) =>
               /\ executed = <<>>
               /\ booking = NoBooking
               /\ turn.tool_results = NoToolNeeded(assistant)
               /\ turn.prompt = SpecialistPrompt(assistant, history, turn.user_query,
                                                 NoToolNeeded(assistant))
               /\ ~env.ollama.ok =>
                      turn.answer = FormattingPrefix(assistant) \o NoToolNeeded(assistant)

\* the backend answered with two calls of book_hotel and one was executed
C32_Witness ==
    /\ pc = "done"
    /\ assistant = "hotel_assistant"
    /\ selection.name = "book_hotel"
    /\ Len(more_calls) = 1
    /\ Len(executed) = 1
    /\ executed[1].tool = "book_hotel"
    /\ "append" \in {turn.trace[i] : i \in 1..Len(turn.trace)}

\* the backend answered without a tool call
C32_WitnessNoCall ==
    /\ pc = "done"
    /\ assistant = "flight_assistant"
    /\ selection = NoToolCall
    /\ executed = <<>>
    /\ turn.prompt # <<>>

\* what agent leaves of a call on the empty conversation (lines 151-152)
EmptyConversationRefused == [NoTurn EXCEPT !.raised = TRUE, !.ran = TRUE]

\* C33: run_graph_v4 calls agent with a conversation of at least one
\* message whose last message is the new user message, for every history,
\* the empty one included; agent's empty-conversation error is not reached.
C33_AgentGetsUserMessage ==
    pc = "done" =>
        /\ turn.ran
        /\ turn # EmptyConversationRefused
        /\ Len(turn.messages) >= Len(history) + 1
        /\ SubSeq(turn.messages, 1, Len(history) + 1)
               = Append(history, Message("user", user_input))
        /\ turn.user_query = user_input

\* a turn on the empty history: agent was called on the user message alone
C33_Witness ==
    /\ pc = "done"
    /\ history = <<>>
    /\ ~turn.raised
    /\ turn.messages[1] = Message("user", user_input)
    /\ Len(turn.messages) = 2

\* the text of a booking tool's confirmation
Confirms(text) ==
    \E i \in 1..Len(text) :
        text[i] \in {" successfully booked for passenger ", " successfully updated to flight "}

\* C34: a turn of run_graph_v4 and agent invokes no booking tool: for every
\* utterance and passenger_id the router's results are those of the search,
\* policy, web-search and user-info tools, and no booking confirmation is
\* among them or in the prompt.
C34_NoBookingOnPrimaryPath ==
    (pc = "done" /\ turn.ran) =>
        /\ booking = NoBooking
        /\ DOMAIN turn.tool_results \subseteq
               {"flights", "hotels", "cars", "policy", "excursions", "web_search",
                "user_info", "error"}
        /\ \A k \in DOMAIN turn.tool_results :
               /\ ~Confirms(turn.tool_results[k].text)
               /\ k = "flights" =>
                      turn.tool_results[k] = search_flights(turn.location, 5, store)
               /\ k = "hotels" =>
                      turn.tool_results[k] = search_hotels(turn.location, 20, store)
               /\ k = "cars" =>
                      turn.tool_results[k] = search_cars(turn.location, 20, store)
               /\ k = "excursions" =>
                      turn.tool_results[k] = search_excursions(turn.location, 20, store)
               /\ k = "user_info" => turn.tool_results[k] = fetch_user_info(passenger_id)
        /\ ~Confirms(turn.prompt)

\* a hotel request with a place, from a passenger with an id
C34_Witness ==
    /\ pc = "done"
    /\ passenger_id # <<>>
    /\ turn.routed = "hotels"
    /\ turn.location # <<>>
    /\ DOMAIN turn.tool_results = {"hotels", "user_info"}
    /\ turn.tool_results["hotels"].kind = "rows"

\* C35: in the chat front end one turn is processed start to finish before
\* the next is accepted: a message starts a turn only while the processing
\* flag is false, the flag is true for the whole turn, and it is false again
\* at the end of every turn, succeeded or failed, so the session can always
\* accept input again.
C35_OneTurnAtATime ==
    /\ processing <=> pc \in {"running", "rerun", "failed"}
    /\ pc = "ready" => Len(history) = 2 * turns /\ Alternates(history)
    /\ pc = "running" =>
           /\ Len(history) = 2 * turns + 1
           /\ Last(history) = Message("user", user_input)
    /\ pc \in {"rerun", "failed"} =>
           /\ Len(history) = 2 * turns + 2
           /\ Last(history).role = "assistant"

\* after a failed turn and a turn that succeeded the flag is down
C35_Witness ==
    /\ pc = "ready"
    /\ turns = 2
    /\ ~processing
    /\ history[2].content # turn.answer
    /\ Len(history[2].content) = 12
    /\ history[4].content = turn.answer

====
